---- MODULE Spec2Model ----
(***************************************************************************)
(* A model of the ureq HTTP/1.1 client:                                    *)
(*   - read_status_and_headers / Response::do_from_stream (response.rs)    *)
(*   - parse_status_line_from_header (response.rs)                         *)
(*   - Headers::try_from / Headers::header (header.rs)                     *)
(*   - Response::into_reader and LimitedRead (response.rs)                 *)
(*   - ComboReader (readers.rs)                                            *)
(*   - Request::do_call (request.rs), connect, connect_inner and           *)
(*     send_prelude (unit.rs), Header (header.rs)                          *)
(*   - Url::parse, host_str, path and port (url.rs)                        *)
(*   - connect_host (stream.rs)                                            *)
(*   - PoolReturnRead (pool.rs)                                            *)
(* Bytes are natural numbers 0..255; a byte slice is a sequence of bytes.  *)
(* Rust slices are 0-based and half open: Slice(s, a, b) is s[a..b].       *)
(***************************************************************************)
EXTENDS Integers, Sequences, FiniteSets, TLC

VARIABLES rd, sl, br, cr, cn, up, hd, ch, pl, hl, pr

vars == <<rd, sl, br, cr, cn, up, hd, ch, pl, hl, pr>>

(***************************************************************************)
(* Bounds of the model.                                                    *)
(***************************************************************************)
\* BufVec / CarryOver / [0u8; 4096] of response.rs, scaled down so that the
\* model checker can fill it.
BufCap == 5
\* longest header part and longest body part of an enumerated wire
MaxHead == 4
MaxBody == 2
\* longest status line (without its line end) given to the parser
MaxLine == 34
\* longest plain body after the header terminator
MaxPost == 3
\* largest destination buffer of a body read
MaxDst == 2
\* stands for 2^64, the modulus of usize arithmetic: larger than every
\* length of the model, as 2^64 is larger than every length of the program
UsizeModulus == 1000
\* Buffer<16_384> of readers.rs, scaled down
CoBufCap == 4
\* most lines of an enumerated header block
MaxLines == 2
\* the inline capacity of HeaderVec (128 in header.rs), scaled down
MAX_HEADER_COUNT == 3
\* most addresses the resolver returns: one more than SocketVec holds
MaxAddrs == 9
\* the last tick of the clock of connect_host
MaxTime == 4
\* longest line given to Header::from_str
MaxHeaderLine == 3

(***************************************************************************)
(* Byte values used by the code.                                           *)
(***************************************************************************)
CR == 13
LF == 10
SP == 32
COLON == 58
\* StatusVec = ArrayVec<u8, 32>
StatusCap == 32
MAX_HEADER_SIZE == 1024
\* SocketVec = ArrayVec<SocketAddr, 8>
SocketCap == 8

Idle == [pc |-> "idle"]

Min(a, b) == IF a < b THEN a ELSE b

\* s[a..b] of Rust: the bytes at 0-based positions a .. b-1
Slice(s, a, b) == SubSeq(s, a + 1, b)

\* all sequences over S of length 0..n
SeqsUpTo(S, n) == UNION {[1..k -> S] : k \in 0..n}

\* memchr::memchr(b, s): 0-based position of the first b in s, -1 for None
Memchr(b, s) ==
    IF \E i \in 1..Len(s) : s[i] = b
    THEN (CHOOSE i \in 1..Len(s) : s[i] = b /\ \A j \in 1..(i - 1) : s[j] # b) - 1
    ELSE -1

\* the header terminator b"\r\n\r\n"
Terminator == <<CR, LF, CR, LF>>

MatchAt(s, i, pat) ==
    /\ i + Len(pat) <= Len(s)
    /\ \A j \in 1..Len(pat) : s[i + j] = pat[j]

\* memchr::memmem::find(s, pat): 0-based position of the first match, -1 for None
MemFind(s, pat) ==
    IF \E i \in 0..Len(s) : MatchAt(s, i, pat)
    THEN CHOOSE i \in 0..Len(s) :
            MatchAt(s, i, pat) /\ \A j \in 0..(i - 1) : ~MatchAt(s, j, pat)
    ELSE -1

\* ArrayVec::try_extend_from_slice with the result dropped (let _ = ...):
\* the slice is appended when it fits, and nothing is appended otherwise.
TryExtend(v, s, cap) == IF Len(v) + Len(s) <= cap THEN v \o s ELSE v

\* buffer[at..at+len(s)] = s, the rest of the array unchanged
Overwrite(buffer, at, s) ==
    [i \in 1..Len(buffer) |->
        IF i > at /\ i <= at + Len(s) THEN s[i - at] ELSE buffer[i]]

\* buffer.copy_within(a..b, 0)
CopyWithin(buffer, a, b) == Overwrite(buffer, 0, Slice(buffer, a, b))

(***************************************************************************)
(* Headers::try_from (header.rs): the index of every line of a block.      *)
(***************************************************************************)
RECURSIVE TryFromLines(_, _, _, _)
\* the loop body of try_from for the line feeds at 0-based positions >= from;
\* hs is the HeaderVec built so far
TryFromLines(v, from, start, hs) ==
    LET rest == Slice(v, from, Len(v))
        m == Memchr(LF, rest)
    IN  IF m = -1 THEN [kind |-> "Ok", indices |-> hs, data |-> v]
        ELSE LET n == from + m
             IN  IF n = 0 THEN [kind |-> "panic"]          \* v[n-1] with n = 0
                 ELSE LET end == IF v[n] = CR THEN n - 1 ELSE n   \* v[n-1] is v[n] 1-based
                          c == Memchr(COLON, Slice(v, start, end))
                      IN  IF c = -1 THEN [kind |-> "BadHeader"]
                          ELSE IF end - start > MAX_HEADER_SIZE THEN [kind |-> "BadHeader"]
                          ELSE TryFromLines(v, n + 1, n + 1,
                                    Append(hs, [start |-> start,
                                                colon |-> start + c,
                                                end |-> end]))

HeadersTryFrom(v) == TryFromLines(v, 0, 0, <<>>)

(***************************************************************************)
(* read_status_and_headers and Response::do_from_stream (response.rs).     *)
(* rd.wire is what the peer sends before it closes, rd.rpos how much of it *)
(* the reads have taken.                                                   *)
(***************************************************************************)
Wires ==
    {h \o t : h \in SeqsUpTo({97, COLON, CR, LF}, MaxHead),
              t \in {<<>>} \cup {Terminator \o b : b \in SeqsUpTo({98, CR, LF}, MaxBody)}}

ReadInit ==
    /\ sl = Idle /\ br = Idle /\ cr = Idle /\ cn = Idle /\ up = Idle /\ hd = Idle /\ ch = Idle /\ pl = Idle /\ hl = Idle /\ pr = Idle
    /\ rd \in {[pc |-> "loop", wire |-> w, rpos |-> 0, buf |-> <<>>,
                buffer |-> [i \in 1..BufCap |-> 0], carry |-> 0,
                head |-> <<>>, carryover |-> <<>>, result |-> "none"] : w \in Wires}

\* After the loop: Ok((buf.into(), carryover)) with carryover = buffer[..carry]
ReadReturn(r, buffer, carry, buf, rpos) ==
    [r EXCEPT !.pc = "returned", !.buffer = buffer, !.carry = carry, !.buf = buf,
              !.rpos = rpos, !.head = buf, !.carryover = Slice(buffer, 0, carry)]

\* One iteration of the loop, for a read that returned Ok(n) into
\* buffer[carry..]
ReadIteration(r, n) ==
    LET buffer1 == Overwrite(r.buffer, r.carry, Slice(r.wire, r.rpos, r.rpos + n))
        rpos1 == r.rpos + n
        c == n + r.carry
        i == MemFind(Slice(buffer1, 0, c), Terminator)
    IN  IF n = 0 THEN ReadReturn(r, r.buffer, r.carry, r.buf, r.rpos)
        ELSE IF i # -1
        THEN ReadReturn(r, CopyWithin(buffer1, i + 4, c), c - i - 4,
                        TryExtend(r.buf, Slice(buffer1, 0, i + 2), BufCap), rpos1)
        ELSE IF c < 3
        \* c - 3 on usize: a panic with overflow checks, and without them a
        \* wrapped slice end far outside the array, which panics as well
        THEN [r EXCEPT !.pc = "panic", !.rpos = rpos1, !.buffer = buffer1]
        ELSE [r EXCEPT !.buf = TryExtend(r.buf, Slice(buffer1, 0, c - 3), BufCap),
                       !.buffer = CopyWithin(buffer1, c - 3, c),
                       !.carry = 3, !.rpos = rpos1]

\* limited_reader.read(&mut buffer[carry..]) returns Ok(n): n = 0 only at the end
\* of the stream (the destination is never empty)
ReadStep ==
    /\ rd.pc = "loop"
    /\ \E n \in 0..Min(BufCap - rd.carry, Len(rd.wire) - rd.rpos) :
         /\ (n = 0) => (rd.rpos = Len(rd.wire))
         /\ rd' = ReadIteration(rd, n)
    /\ UNCHANGED <<sl, br, cr, cn, up, hd, ch, pl, hl, pr>>

\* limited_reader.read returns an error other than Interrupted
ReadFail ==
    /\ rd.pc = "loop"
    /\ rd' = [rd EXCEPT !.pc = "ioerr"]
    /\ UNCHANGED <<sl, br, cr, cn, up, hd, ch, pl, hl, pr>>

\* do_from_stream, lines 409-414: the status line is the head up to and with
\* its first LF, collected into StatusVec = ArrayVec<u8, 32>; collecting more
\* than the capacity panics
SplitStatusLine(headers) ==
    LET i == Memchr(LF, headers)
    IN  IF i = -1 THEN [kind |-> "BadStatus"]
        ELSE IF i + 1 > StatusCap THEN [kind |-> "panic"]
        ELSE [kind |-> "Ok", status_line |-> Slice(headers, 0, i + 1),
              headers |-> Slice(headers, i + 1, Len(headers))]

\* what do_from_stream makes of the head read_status_and_headers returned
DoFromStreamResult(headers) ==
    LET sp == SplitStatusLine(headers)
    IN  IF sp.kind # "Ok" THEN sp.kind
        ELSE LET hs == HeadersTryFrom(sp.headers)
             IN  IF hs.kind = "Ok" THEN "Response" ELSE hs.kind

DoFromStream ==
    /\ rd.pc = "returned"
    /\ rd' = [rd EXCEPT !.pc = "done", !.result = DoFromStreamResult(rd.head)]
    /\ UNCHANGED <<sl, br, cr, cn, up, hd, ch, pl, hl, pr>>

ReadNext == ReadStep \/ ReadFail \/ DoFromStream

ReadSpec == ReadInit /\ [][ReadNext]_vars

\* the first terminator of the wire, -1 when the wire has none
TermAt(w) == MemFind(w, Terminator)

\* C1: whenever the stream contains \r\n\r\n, read_status_and_headers returns
\* (it does not panic), head is the bytes before the first terminator plus
\* the CRLF ending the last header line, and carryover followed by the
\* unread rest of the stream is the bytes after the terminator.
C1_HeadAndCarryOverExact ==
    (TermAt(rd.wire) # -1) =>
        /\ rd.pc # "panic"
        /\ (rd.pc \in {"returned", "done"}) =>
              /\ rd.head = Slice(rd.wire, 0, TermAt(rd.wire) + 2)
              /\ rd.carryover \o Slice(rd.wire, rd.rpos, Len(rd.wire))
                    = Slice(rd.wire, TermAt(rd.wire) + 4, Len(rd.wire))

\* C9: when the stream ends, or the header bytes outgrow the buffer, before
\* the terminator is found, no Response is built: do_from_stream fails.
C9_NoResponseFromPartialHead ==
    (rd.pc = "done" /\ rd.result = "Response") =>
        /\ TermAt(rd.wire) # -1
        /\ rd.head = Slice(rd.wire, 0, TermAt(rd.wire) + 2)

(***************************************************************************)
(* The status line: do_from_stream's split and                             *)
(* parse_status_line_from_header, which Response::get_status_line calls.   *)
(***************************************************************************)
IsAscii(b) == b < 128
IsAsciiDigit(b) == b \in 48..57

\* b"HTTP/1.1"
Http11 == <<72, 84, 84, 80, 47, 49, 46, 49>>
\* b"HTTP/1.0"
Http10 == <<72, 84, 84, 80, 47, 49, 46, 48>>

parse_status_line_from_header(s) ==
    \* s.len() < 12 || s[12] != b' ' || s[8] != b' ': s[12] is read as soon as
    \* the length is at least 12, and is out of bounds when it is exactly 12
    IF Len(s) < 12 THEN [kind |-> "BadStatus"]
    ELSE IF Len(s) = 12 THEN [kind |-> "panic"]
    ELSE IF s[13] # SP \/ s[9] # SP THEN [kind |-> "BadStatus"]
    ELSE IF \E i \in 1..Len(s) : ~IsAscii(s[i]) THEN [kind |-> "BadStatus"]
    ELSE IF Slice(s, 0, 8) # Http11 THEN [kind |-> "BadStatus"]
    ELSE IF \E i \in 10..12 : ~IsAsciiDigit(s[i]) THEN [kind |-> "BadStatus"]
    ELSE [kind |-> "Ok", version |-> Http11,
          status |-> (s[10] - 48) * 100 + (s[11] - 48) * 10 + (s[12] - 48),
          text |-> Slice(s, 12, Len(s))]

\* "HTTP/1.1 200 OK" followed by more reason text
LongStatus == Http11 \o <<SP, 50, 48, 48, SP, 79, 75>> \o [i \in 1..(MaxLine + 1) |-> 75]

\* s with the byte at 0-based position p replaced by b
Mutate(s, p, b) == [i \in 1..Len(s) |-> IF i = p + 1 THEN b ELSE s[i]]

\* the heads given to do_from_stream: a status line of every length up to
\* MaxLine ended by LF or CRLF, as it is and with one byte replaced
StatusHeads ==
    LET lines == {Slice(LongStatus, 0, l) \o e : l \in 0..MaxLine, e \in {<<LF>>, <<CR, LF>>}}
    IN  lines \cup {Mutate(x, p, b) : x \in lines, p \in 0..12, b \in {SP, 88, 48, 200}}

StatusInit ==
    /\ rd = Idle /\ br = Idle /\ cr = Idle /\ cn = Idle /\ up = Idle /\ hd = Idle /\ ch = Idle /\ pl = Idle /\ hl = Idle /\ pr = Idle
    /\ sl \in {[pc |-> "split", head |-> h, split |-> [kind |-> "none"],
                 result |-> [kind |-> "none"]] : h \in StatusHeads}

\* Response::do_from_stream, up to the construction of the Response
StatusSplit ==
    /\ sl.pc = "split"
    /\ LET sp == SplitStatusLine(sl.head)
       IN  sl' = [sl EXCEPT !.split = sp,
                            !.pc = IF sp.kind = "Ok" THEN "response" ELSE "done",
                            !.result = IF sp.kind = "Ok" THEN sl.result ELSE [kind |-> sp.kind]]
    /\ UNCHANGED <<rd, br, cr, cn, up, hd, ch, pl, hl, pr>>

\* Response::get_status_line, as connect calls it on the response
GetStatusLine ==
    /\ sl.pc = "response"
    /\ sl' = [sl EXCEPT !.pc = "done",
                        !.result = parse_status_line_from_header(sl.split.status_line)]
    /\ UNCHANGED <<rd, br, cr, cn, up, hd, ch, pl, hl, pr>>

StatusNext == StatusSplit \/ GetStatusLine

StatusSpec == StatusInit /\ [][StatusNext]_vars

\* the line the peer sent: the head up to and with its first LF
SentStatusLine(h) == Slice(h, 0, Memchr(LF, h) + 1)

\* the status line grammar: a version literal, a space, three digits, a
\* space, reason text; ASCII only; no longer than the status buffer
StatusGrammar(s) ==
    /\ Len(s) >= 13 /\ Len(s) <= StatusCap
    /\ \A i \in 1..Len(s) : IsAscii(s[i])
    /\ Slice(s, 0, 8) \in {Http11, Http10}
    /\ s[9] = SP /\ s[13] = SP
    /\ \A i \in 10..12 : IsAsciiDigit(s[i])

\* C10: every status line ends in a status or in BadStatus, never in a
\* panic, and a line that deviates from the grammar ends in BadStatus.
C10_MalformedStatusIsBadStatus ==
    (sl.pc = "done") =>
        /\ sl.result.kind \in {"Ok", "BadStatus"}
        /\ (sl.result.kind = "Ok") => StatusGrammar(SentStatusLine(sl.head))

\* the three digits of a status line as a number
CodeOf(s) == (s[10] - 48) * 100 + (s[11] - 48) * 10 + (s[12] - 48)

\* C11: a status line "HTTP/1.0 " + 3 digits + space + reason text is
\* accepted like its HTTP/1.1 counterpart: Ok, version HTTP/1.0, the code.
C11_Http10Accepted ==
    LET s == SentStatusLine(sl.head)
    IN  (sl.pc = "done" /\ StatusGrammar(s) /\ Slice(s, 0, 8) = Http10) =>
            /\ sl.result.kind = "Ok"
            /\ sl.result.version = Http10
            /\ sl.result.status = CodeOf(s)

\* a version, a space and three digits, directly followed by the line end
NoReasonLine(s) ==
    /\ Len(s) \in {13, 14}
    /\ Slice(s, 0, 8) \in {Http11, Http10}
    /\ s[9] = SP
    /\ \A i \in 10..12 : IsAsciiDigit(s[i])
    /\ Slice(s, 12, Len(s)) \in {<<LF>>, <<CR, LF>>}

\* C12: a status line with a valid version and code but no reason phrase
\* parses: the status is the code and the status text is empty.
C12_NoReasonParses ==
    LET s == SentStatusLine(sl.head)
    IN  (sl.pc = "done" /\ NoReasonLine(s)) =>
            /\ sl.result.kind = "Ok"
            /\ sl.result.status = CodeOf(s)
            /\ sl.result.text \in {<<>>, <<LF>>, <<CR, LF>>}

(***************************************************************************)
(* Header lookup: Headers::header (header.rs) and Response::header.        *)
(***************************************************************************)
\* u8::to_ascii_lowercase; str::to_lowercase agrees with it on ASCII text
Lower(b) == IF b \in 65..90 THEN b + 32 ELSE b
LowerSeq(s) == [i \in 1..Len(s) |-> Lower(s[i])]

\* std::str::from_utf8(s).is_ok(), for the bytes of the model: ASCII, and
\* the byte 0xFF, which no UTF-8 text contains
IsUtf8(s) == \A i \in 1..Len(s) : s[i] < 128

\* char::is_whitespace on ASCII: HT, LF, VT, FF, CR and space
IsWhitespace(b) == b \in {9, 10, 11, 12, 13, SP}

RECURSIVE TrimStart(_)
TrimStart(s) == IF Len(s) > 0 /\ IsWhitespace(s[1]) THEN TrimStart(Tail(s)) ELSE s

RECURSIVE TrimEnd(_)
TrimEnd(s) ==
    IF Len(s) > 0 /\ IsWhitespace(s[Len(s)]) THEN TrimEnd(SubSeq(s, 1, Len(s) - 1)) ELSE s

\* str::trim
Trim(s) == TrimEnd(TrimStart(s))

None == [kind |-> "None"]
Some(v) == [kind |-> "Some", v |-> v]

RECURSIVE HeaderFrom(_, _, _)
\* the loop of Headers::header from the k-th index on: the value of the
\* first header whose name equals `name` in lower case; from_utf8(h).unwrap()
\* panics on a name that is not UTF-8
HeaderFrom(hs, name, k) ==
    IF k > Len(hs.indices) THEN None
    ELSE LET idx == hs.indices[k]
             h == Slice(hs.data, idx.start, idx.colon)
         IN  IF ~IsUtf8(h) THEN [kind |-> "panic"]
             ELSE IF LowerSeq(h) = LowerSeq(name)
                  THEN Some(Slice(hs.data, idx.colon + 1, idx.end))
                  ELSE HeaderFrom(hs, name, k + 1)

HeadersHeader(hs, name) == HeaderFrom(hs, name, 1)

\* a Response::header that hands out the bytes of every value as text
ResponseHeaderLossy(resp, name) ==
    LET r == HeadersHeader(resp.headers, name)
    IN  IF r.kind = "Some" THEN Some(Trim(r.v)) ELSE r

\* Response::header: the value as text, trimmed; None when it is not UTF-8
ResponseHeader(resp, name) ==
    LET r == HeadersHeader(resp.headers, name)
    IN  IF r.kind = "Some" THEN (IF IsUtf8(r.v) THEN Some(Trim(r.v)) ELSE None) ELSE r

\* str::eq_ignore_ascii_case
EqIgnoreAsciiCase(a, b) == LowerSeq(a) = LowerSeq(b)

RECURSIVE DigitsValue(_)
DigitsValue(s) == IF Len(s) = 0 THEN 0 ELSE DigitsValue(SubSeq(s, 1, Len(s) - 1)) * 10 + (s[Len(s)] - 48)

\* str::parse::<usize>: an optional '+' and at least one decimal digit (the
\* values of the model are far from usize::MAX)
ParseUsize(s) ==
    LET d == IF Len(s) > 0 /\ s[1] = 43 THEN Tail(s) ELSE s
    IN  IF Len(d) > 0 /\ \A i \in 1..Len(d) : IsAsciiDigit(d[i])
        THEN Some(DigitsValue(d)) ELSE None

(***************************************************************************)
(* Response::into_reader (response.rs): the framing decision.              *)
(***************************************************************************)
NameConnection == <<99, 111, 110, 110, 101, 99, 116, 105, 111, 110>>
NameTransferEncoding ==
    <<116, 114, 97, 110, 115, 102, 101, 114, 45, 101, 110, 99, 111, 100, 105, 110, 103>>
NameContentLength == <<99, 111, 110, 116, 101, 110, 116, 45, 108, 101, 110, 103, 116, 104>>
TextClose == <<99, 108, 111, 115, 101>>
TextHead == <<104, 101, 97, 100>>

\* Response::get_status_line
get_status_line(resp) == parse_status_line_from_header(resp.status_line)

is_http10(resp) == EqIgnoreAsciiCase(get_status_line(resp).version, Http10)

is_close(resp) ==
    LET c == ResponseHeader(resp, NameConnection)
    IN  c.kind = "Some" /\ EqIgnoreAsciiCase(c.v, TextClose)

\* Unit::is_head
is_head(unit) == EqIgnoreAsciiCase(unit.method, TextHead)

has_no_body(resp) == is_head(resp.unit) \/ get_status_line(resp).status \in {204, 304}

is_chunked(resp) ==
    LET enc == ResponseHeader(resp, NameTransferEncoding)
    IN  enc.kind = "Some" /\ enc.v # <<>>

use_chunked(resp) == ~is_http10(resp) /\ ~has_no_body(resp) /\ is_chunked(resp)

\* limit_bytes without the Connection: close test
limit_bytes_ignoring_close(resp) ==
    IF is_http10(resp) THEN None
    ELSE IF has_no_body(resp) THEN Some(0)
    ELSE LET l == ResponseHeader(resp, NameContentLength)
         IN  IF l.kind = "Some" THEN ParseUsize(l.v) ELSE None

limit_bytes(resp) ==
    IF is_http10(resp) \/ is_close(resp) THEN None
    ELSE IF has_no_body(resp) THEN Some(0)
    ELSE LET l == ResponseHeader(resp, NameContentLength)
         IN  IF l.kind = "Some" THEN ParseUsize(l.v) ELSE None

\* len - self.carryover.len() on usize, when it underflows: a panic in a
\* build with overflow checks, the wrapped value in a build without
UsizeSub(a, b, overflow_checks) ==
    IF a >= b THEN Some(a - b)
    ELSE IF overflow_checks THEN [kind |-> "panic"]
    ELSE Some(UsizeModulus + a - b)

\* time_until_deadline(unit.deadline).is_err()
DeadlinePassed(unit) == unit.deadline = "past"

\* the reader into_reader returns with the carry-over
into_reader(resp, overflow_checks) ==
    IF DeadlinePassed(resp.unit) THEN [kind |-> "ErrorReader", limit |-> 0]
    ELSE IF use_chunked(resp) THEN [kind |-> "ChunkDecoder", limit |-> 0]
    ELSE IF limit_bytes(resp).kind = "Some"
    THEN LET l == UsizeSub(limit_bytes(resp).v, Len(resp.carryover), overflow_checks)
         IN  IF l.kind = "panic" THEN [kind |-> "panic", limit |-> 0]
             ELSE [kind |-> "LimitedRead", limit |-> l.v]
    ELSE [kind |-> "Stream", limit |-> 0]

(***************************************************************************)
(* The body readers: LimitedRead (response.rs), the raw Stream, the        *)
(* chunked decoder and ErrorReader.                                        *)
(***************************************************************************)
HexValue(b) ==
    IF b \in 48..57 THEN b - 48
    ELSE IF b \in 97..102 THEN b - 87
    ELSE IF b \in 65..70 THEN b - 55
    ELSE -1

RECURSIVE HexNumber(_)
HexNumber(s) ==
    IF Len(s) = 0 THEN 0
    ELSE HexNumber(SubSeq(s, 1, Len(s) - 1)) * 16 + HexValue(s[Len(s)])

RECURSIVE ChunkDecode(_, _)
\* the chunked decoder read to its end over the bytes s, with the payload
\* decoded so far: size line in hex, CRLF, payload, CRLF, ... , a chunk of
\* size zero and a last CRLF
ChunkDecode(s, payload) ==
    LET e == MemFind(s, <<CR, LF>>)
        size == HexNumber(Slice(s, 0, e))
        after == Slice(s, e + 2, Len(s))
    IN  IF e < 1 \/ \E i \in 1..e : HexValue(s[i]) = -1
        THEN [kind |-> "Err", payload |-> payload, rest |-> s]
        ELSE IF size = 0
        THEN IF MatchAt(after, 0, <<CR, LF>>)
             THEN [kind |-> "Ok", payload |-> payload, rest |-> Slice(after, 2, Len(after))]
             ELSE [kind |-> "Err", payload |-> payload, rest |-> after]
        ELSE IF Len(after) < size + 2 \/ ~MatchAt(after, size, <<CR, LF>>)
        THEN [kind |-> "Err", payload |-> payload \o Slice(after, 0, Min(size, Len(after))),
              rest |-> <<>>]
        ELSE ChunkDecode(Slice(after, size + 2, Len(after)),
                         payload \o Slice(after, 0, size))

Result(kind, n) == [kind |-> kind, n |-> n]

\* LimitedResult with the end of the stream passed on as Ok(0)
LimitedResultPassesEof(under) == under

\* what LimitedRead::read returns for what the underlying read returned
LimitedResult(under) ==
    IF under.kind = "Ok" /\ under.n = 0 THEN Result("UnexpectedEof", 0)
    ELSE under

\* a LimitedRead::read without the test of left == 0
LimitedReadReadsOn(b, dst, under) ==
    [b EXCEPT !.last = LimitedResult(under), !.under = under,
              !.position = IF under.kind = "Ok" THEN b.position + under.n ELSE b.position,
              !.delivered = IF under.kind = "Ok"
                            THEN b.delivered \o Slice(b.stream, 0, under.n)
                            ELSE b.delivered,
              !.stream = IF under.kind = "Ok"
                         THEN Slice(b.stream, under.n, Len(b.stream))
                         ELSE b.stream]

\* LimitedRead::read for a destination of dst bytes, when the underlying
\* stream returns `under` for the read of `from` bytes
LimitedReadRead(b, dst, under) ==
    LET left == b.limit - b.position
    IN  IF left = 0 THEN [b EXCEPT !.last = Result("Ok", 0), !.under = Result("none", 0)]
        ELSE [b EXCEPT !.last = LimitedResult(under), !.under = under,
                       !.position = IF under.kind = "Ok" THEN b.position + under.n
                                    ELSE b.position,
                       !.delivered = IF under.kind = "Ok"
                                     THEN b.delivered \o Slice(b.stream, 0, under.n)
                                     ELSE b.delivered,
                       !.stream = IF under.kind = "Ok"
                                  THEN Slice(b.stream, under.n, Len(b.stream))
                                  ELSE b.stream]

\* the sizes a read of the stream into `from` bytes can return: 0 for an
\* empty destination and at the end of the stream, else at least one byte
StreamReads(stream, from) ==
    IF from = 0 \/ Len(stream) = 0 THEN {0} ELSE 1..Min(from, Len(stream))

\* "Name: value\r\n"
Line(name, value) == name \o <<COLON, SP>> \o value \o <<CR, LF>>

HdrConnection == <<67, 111, 110, 110, 101, 99, 116, 105, 111, 110>>
HdrTransferEncoding ==
    <<84, 114, 97, 110, 115, 102, 101, 114, 45, 69, 110, 99, 111, 100, 105, 110, 103>>
HdrContentLength == <<67, 111, 110, 116, 101, 110, 116, 45, 76, 101, 110, 103, 116, 104>>
TextKeepAlive == <<107, 101, 101, 112, 45, 97, 108, 105, 118, 101>>
TextChunked == <<99, 104, 117, 110, 107, 101, 100>>
TextGzip == <<103, 122, 105, 112>>

ConnectionLines == {<<>>, Line(HdrConnection, TextClose), Line(HdrConnection, TextKeepAlive)}
TransferEncodingLines ==
    {<<>>} \cup {Line(HdrTransferEncoding, v) : v \in {<<>>, TextChunked, TextGzip, <<255>>}}
ContentLengthLines == {<<>>} \cup {Line(HdrContentLength, v) : v \in {<<48>>, <<50>>, <<120>>}}

\* "HTTP/1.1 <code> OK\r\n" for a three digit code
StatusLineOf(code) ==
    Http11 \o <<SP, 48 + (code \div 100), 48 + ((code \div 10) % 10), 48 + (code % 10),
                SP, 79, 75, CR, LF>>

\* the bytes after the header terminator: plain bytes, or a chunked body
\* "1\r\ne\r\n0\r\n\r\n"
PlainPost == [i \in 1..MaxPost |-> 100 + i]
ChunkedPost == <<49, CR, LF, 101, CR, LF, 48, CR, LF, CR, LF>>
Posts == {Slice(PlainPost, 0, l) : l \in 0..MaxPost} \cup {ChunkedPost}

\* the responses do_from_stream returns and connect accepts, for each of the
\* given bytes after the terminator, with the first k of them in the
\* carry-over
Responses(posts) ==
    UNION {{[status_line |-> StatusLineOf(code),
             headers |-> HeadersTryFrom(te \o cl \o co),
             unit |-> [method |-> m, deadline |-> d],
             stream |-> Slice(post, k, Len(post)),
             carryover |-> Slice(post, 0, k)] :
               code \in {200, 204, 304}, te \in TransferEncodingLines,
               cl \in ContentLengthLines, co \in ConnectionLines,
               m \in {<<71, 69, 84>>, <<72, 69, 65, 68>>},
               d \in {"none", "future", "past"}, k \in 0..Len(post)} : post \in posts}

BodyInit ==
    /\ rd = Idle /\ sl = Idle /\ cr = Idle /\ cn = Idle /\ up = Idle /\ hd = Idle /\ ch = Idle /\ pl = Idle /\ hl = Idle /\ pr = Idle
    /\ br \in {[pc |-> "response", resp |-> r, post |-> r.carryover \o r.stream,
                reader |-> "none", limit |-> 0, position |-> 0,
                stream |-> r.stream, delivered |-> <<>>,
                under |-> Result("none", 0), last |-> Result("none", 0)] : r \in Responses(Posts)}

\* Response::into_reader
IntoReader ==
    /\ br.pc = "response"
    /\ \E overflow_checks \in BOOLEAN :
         LET r == into_reader(br.resp, overflow_checks)
         IN  br' = [br EXCEPT !.pc = IF r.kind = "panic" THEN "panic" ELSE "reading",
                              !.reader = r.kind, !.limit = r.limit]
    /\ UNCHANGED <<rd, sl, cr, cn, up, hd, ch, pl, hl, pr>>

\* LimitedRead::read, the underlying read returning Ok
ReadLimited ==
    /\ br.pc = "reading" /\ br.reader = "LimitedRead"
    /\ \E dst \in 0..MaxDst :
         \E n \in StreamReads(br.stream, Min(br.limit - br.position, dst)) :
            br' = LimitedReadRead(br, dst, Result("Ok", n))
    /\ UNCHANGED <<rd, sl, cr, cn, up, hd, ch, pl, hl, pr>>

\* LimitedRead::read, the underlying read returning an error
ReadLimitedFail ==
    /\ br.pc = "reading" /\ br.reader = "LimitedRead"
    /\ br' = LimitedReadRead(br, MaxDst, Result("Io", 0))
    /\ UNCHANGED <<rd, sl, cr, cn, up, hd, ch, pl, hl, pr>>

\* Stream::read on the raw stream (until-close framing)
ReadStream ==
    /\ br.pc = "reading" /\ br.reader = "Stream"
    /\ \E dst \in 0..MaxDst :
         \E n \in StreamReads(br.stream, dst) :
            br' = [br EXCEPT !.last = Result("Ok", n),
                             !.delivered = br.delivered \o Slice(br.stream, 0, n),
                             !.stream = Slice(br.stream, n, Len(br.stream))]
    /\ UNCHANGED <<rd, sl, cr, cn, up, hd, ch, pl, hl, pr>>

\* the chunked decoder, read to its end
ReadChunked ==
    /\ br.pc = "reading" /\ br.reader = "ChunkDecoder"
    /\ LET d == ChunkDecode(br.stream, <<>>)
       IN  br' = [br EXCEPT !.pc = "drained",
                            !.last = IF d.kind = "Ok" THEN Result("Ok", 0)
                                     ELSE Result("InvalidInput", 0),
                            !.delivered = d.payload, !.stream = d.rest]
    /\ UNCHANGED <<rd, sl, cr, cn, up, hd, ch, pl, hl, pr>>

\* ErrorReader::read
ReadError ==
    /\ br.pc = "reading" /\ br.reader = "ErrorReader"
    /\ br' = [br EXCEPT !.pc = "drained", !.last = Result("TimedOut", 0)]
    /\ UNCHANGED <<rd, sl, cr, cn, up, hd, ch, pl, hl, pr>>

BodyNext ==
    IntoReader \/ ReadLimited \/ ReadLimitedFail \/ ReadStream \/ ReadChunked \/ ReadError

BodySpec == BodyInit /\ [][BodyNext]_vars

(***************************************************************************)
(* Properties of into_reader and of the body readers.                      *)
(***************************************************************************)
\* into_reader has been called on the response
Framed == br.pc \in {"reading", "drained", "panic"}

\* the body the caller has got so far: the carry-over, then what the reader
\* delivered
BodySoFar == br.resp.carryover \o br.delivered

IsPrefix(a, b) == Len(a) <= Len(b) /\ a = SubSeq(b, 1, Len(a))

\* the raw value of a header of the response, as Headers::header finds it
RawHeader(name) == HeadersHeader(br.resp.headers, name)

\* the response has a header of that name whose value is non-empty text
HasText(name) ==
    /\ RawHeader(name).kind = "Some"
    /\ IsUtf8(RawHeader(name).v)
    /\ Trim(RawHeader(name).v) # <<>>

\* Content-Length: N, for the N of a response that has one
ContentLengthOf == ParseUsize(Trim(RawHeader(NameContentLength).v)).v

\* framed by Content-Length: HTTP/1.1, may carry a body, no Connection:
\* close, no Transfer-Encoding, Content-Length: N, deadline not passed
FramedByContentLength ==
    /\ Framed
    /\ ~DeadlinePassed(br.resp.unit)
    /\ ~has_no_body(br.resp)
    /\ ~is_close(br.resp)
    /\ RawHeader(NameTransferEncoding).kind = "None"
    /\ HasText(NameContentLength)
    /\ ParseUsize(Trim(RawHeader(NameContentLength).v)).kind = "Some"

\* C2: for a response framed by Content-Length: N with k bytes of carry-over,
\* for every k (k > N included), the limit N - k does not underflow, the
\* body is the first N bytes after the terminator, and the bytes beyond N
\* stay unread in the stream.
C2_ContentLengthBodyExact ==
    FramedByContentLength =>
        /\ br.pc # "panic"
        /\ br.reader = "LimitedRead"
        /\ br.limit = ContentLengthOf - Len(br.resp.carryover)
        /\ IsPrefix(BodySoFar, br.post)
        /\ Len(BodySoFar) <= ContentLengthOf
        /\ (br.last = Result("Ok", 0)) =>
              /\ BodySoFar = Slice(br.post, 0, ContentLengthOf)
              /\ br.stream = Slice(br.post, ContentLengthOf, Len(br.post))

\* C4 as claimed: with Connection: close on an HTTP/1.1 response that may
\* carry a body, into_reader selects until-close framing, also when a
\* Transfer-Encoding header is present.
C4_CloseBeforeTransferEncoding ==
    (Framed /\ ~DeadlinePassed(br.resp.unit) /\ ~has_no_body(br.resp) /\ is_close(br.resp))
        => br.reader = "Stream"

\* C4 as amended: with Connection: close on an HTTP/1.1 response that may
\* carry a body, into_reader selects until-close framing unless a
\* Transfer-Encoding header with a non-empty text value is present, and then
\* it selects chunked decoding: Transfer-Encoding is evaluated first.
C4_CloseUnlessTransferEncoding ==
    (Framed /\ ~DeadlinePassed(br.resp.unit) /\ ~has_no_body(br.resp) /\ is_close(br.resp))
        => /\ br.pc # "panic"
           /\ br.reader = IF HasText(NameTransferEncoding) THEN "ChunkDecoder" ELSE "Stream"

\* C4 witness: a Connection: close response with a Content-Length and no
\* Transfer-Encoding, read as a raw stream until the peer closes
C4_Witness ==
    /\ br.pc = "reading" /\ br.reader = "Stream"
    /\ ~DeadlinePassed(br.resp.unit) /\ ~has_no_body(br.resp) /\ is_close(br.resp)
    /\ RawHeader(NameTransferEncoding).kind = "None"
    /\ HasText(NameContentLength)
    /\ ParseUsize(Trim(RawHeader(NameContentLength).v)).kind = "Some"
    /\ br.last = Result("Ok", 0) /\ br.stream = <<>> /\ Len(br.delivered) > ContentLengthOf

\* C5: without Connection: close, a response that may carry a body and has a
\* non-empty Transfer-Encoding value, whatever the value, and a
\* Content-Length, is decoded as chunked.
C5_TransferEncodingOverContentLength ==
    ( /\ Framed /\ ~DeadlinePassed(br.resp.unit) /\ ~has_no_body(br.resp)
      /\ ~is_close(br.resp)
      /\ RawHeader(NameTransferEncoding).kind = "Some"
      /\ Trim(RawHeader(NameTransferEncoding).v) # <<>>
      /\ RawHeader(NameContentLength).kind = "Some" )
        => br.reader = "ChunkDecoder"

\* C6: a response to HEAD, or with status 204 or 304, has a body of fixed
\* length 0 whatever its Connection, Transfer-Encoding and Content-Length
\* headers are.
C6_NoBodyIsFixedLengthZero ==
    ( /\ Framed /\ ~DeadlinePassed(br.resp.unit) /\ has_no_body(br.resp)
      /\ br.resp.carryover = <<>> )
        => /\ br.reader = "LimitedRead" /\ br.limit = 0
           /\ br.delivered = <<>>

\* C7: a LimitedRead whose underlying stream returns 0 bytes before the
\* limit is reached returns UnexpectedEof, and it returns Ok(0) only when
\* limit bytes have been delivered.
C7_ShortBodyIsUnexpectedEof ==
    (br.reader = "LimitedRead" /\ br.last.kind # "none") =>
        /\ (br.under = Result("Ok", 0)) => br.last.kind = "UnexpectedEof"
        /\ (br.last = Result("Ok", 0)) =>
              (br.position = br.limit /\ Len(br.delivered) = br.limit)

\* C7 witness: the stream ended before the limit and the read failed
C7_Witness ==
    /\ br.reader = "LimitedRead" /\ br.stream = <<>>
    /\ br.position < br.limit /\ br.position > 0
    /\ br.under = Result("Ok", 0) /\ br.last.kind = "UnexpectedEof"

\* C8: with Transfer-Encoding: chunked, the body got from into_reader is
\* the concatenation of the chunk payloads of the bytes after the header
\* terminator, however many of them came with the headers.
C8_ChunkedBodyIsPayload ==
    ( /\ br.pc = "drained" /\ br.reader = "ChunkDecoder"
      /\ HasText(NameTransferEncoding)
      /\ EqIgnoreAsciiCase(Trim(RawHeader(NameTransferEncoding).v), TextChunked)
      /\ ChunkDecode(br.post, <<>>).kind = "Ok" )
        => /\ br.last = Result("Ok", 0)
           /\ BodySoFar = ChunkDecode(br.post, <<>>).payload

(***************************************************************************)
(* ComboReader (readers.rs): a carry-over buffer in front of a stream.     *)
(* co.buf holds head_len bytes of head and then carry_len bytes of         *)
(* carry-over, the slice buf[head_len..head_len+carry_len] of line 15.     *)
(* Every cell of buf holds its own position, so that a delivered byte      *)
(* tells where it came from; the bytes of the stream are 101, 102, ...     *)
(***************************************************************************)
ComboInit ==
    /\ rd = Idle /\ sl = Idle /\ br = Idle /\ cn = Idle /\ up = Idle /\ hd = Idle /\ ch = Idle /\ pl = Idle /\ hl = Idle /\ pr = Idle
    /\ cr \in {[pc |-> "ready",
                co |-> [buf |-> [i \in 1..CoBufCap |-> i - 1], head_len |-> h, carry_len |-> c],
                st |-> [i \in 1..MaxPost |-> 100 + i],
                lo |-> h, hi |-> h + c,
                out |-> <<>>, st_read |-> FALSE,
                last |-> Result("none", 0)] :
                    h \in 0..CoBufCap, c \in 0..CoBufCap}
    /\ cr.co.head_len + cr.co.carry_len <= CoBufCap

\* <&[u8] as Read>::read: as many bytes as the slice and the destination allow
SliceRead(b, dst) == Slice(b, 0, Min(Len(b), dst))

\* ComboReader::read for a destination of dst bytes, the carry-over branch
ComboReadCarry ==
    /\ cr.pc = "ready"
    /\ cr.co.head_len < cr.co.carry_len
    /\ \E dst \in 0..MaxDst :
         IF cr.co.head_len + cr.co.carry_len > Len(cr.co.buf)
         THEN cr' = [cr EXCEPT !.pc = "panic"]       \* slice end out of range
         ELSE LET b == Slice(cr.co.buf, cr.co.head_len, cr.co.head_len + cr.co.carry_len)
                  got == SliceRead(b, dst)
                  c == Len(got)
              IN  cr' = [cr EXCEPT !.co.head_len = cr.co.head_len + c,
                                   !.out = cr.out \o got,
                                   !.last = Result("Ok", c)]
    /\ UNCHANGED <<rd, sl, br, cn, up, hd, ch, pl, hl, pr>>

\* ComboReader::read, the stream branch: self.st.read(buf)
ComboReadStream ==
    /\ cr.pc = "ready"
    /\ ~(cr.co.head_len < cr.co.carry_len)
    /\ \E dst \in 0..MaxDst :
         \E n \in StreamReads(cr.st, dst) :
            cr' = [cr EXCEPT !.st = Slice(cr.st, n, Len(cr.st)),
                             !.out = cr.out \o Slice(cr.st, 0, n),
                             !.st_read = TRUE,
                             !.last = Result("Ok", n)]
    /\ UNCHANGED <<rd, sl, br, cn, up, hd, ch, pl, hl, pr>>

ComboNext == ComboReadCarry \/ ComboReadStream

ComboSpec == ComboInit /\ [][ComboNext]_vars

\* the carry-over the reader was built with: the positions lo .. hi-1 of buf
CarryRegion == [i \in 1..(cr.hi - cr.lo) |-> cr.lo + i - 1]

\* what the reader has delivered from its buffer (buffer cells are below 100)
RECURSIVE FromBuffer(_)
FromBuffer(o) ==
    IF Len(o) = 0 THEN <<>>
    ELSE IF o[1] < 100 THEN <<o[1]>> \o FromBuffer(Tail(o)) ELSE FromBuffer(Tail(o))

\* C3: the reader delivers the carry-over bytes, each once and in order,
\* before it first reads the stream, and delivers no byte of its buffer
\* from outside the carry-over.
C3_CarryOverReplayedFirst ==
    /\ cr.pc # "panic"
    /\ IsPrefix(FromBuffer(cr.out), CarryRegion)
    /\ cr.st_read => FromBuffer(cr.out) = CarryRegion

(***************************************************************************)
(* Request headers (header.rs): Header, its accessors and its validation.  *)
(* A Header is its line without the line end and the index of the colon.   *)
(***************************************************************************)
\* Header::new(name, value): the line is name ": " value
HeaderNew(name, value) == [line |-> name \o <<COLON, SP>> \o value, index |-> Len(name)]

\* Header::name
HeaderName(h) == Slice(h.line, 0, h.index)

\* is_tchar
IsAsciiAlphanumeric(b) == b \in (48..57) \cup (65..90) \cup (97..122)
is_tchar(b) == b \in {33, 35, 36, 37, 38, 39, 42, 43, 45, 46, 94, 95, 96, 124, 126}
                  \/ IsAsciiAlphanumeric(b)

\* is_field_vchar_or_obs_fold
is_field_vchar_or_obs_fold(b) == b \in {SP, 9} \/ b \in 33..126

valid_name(name) == Len(name) > 0 /\ \A i \in 1..Len(name) : is_tchar(name[i])
valid_value(value) == \A i \in 1..Len(value) : is_field_vchar_or_obs_fold(value[i])

\* Header::validate: TRUE for Ok(()), FALSE for Err(BadHeader)
validate(h) ==
    valid_name(Slice(h.line, 0, h.index))
        /\ valid_value(Slice(h.line, h.index + 1, Len(h.line)))

\* Header::value: the text after the colon, trimmed; None when it is not
\* UTF-8 or holds a byte that no field value may hold
HeaderValue(h) ==
    LET bytes == Slice(h.line, h.index + 1, Len(h.line))
    IN  IF IsUtf8(bytes) /\ valid_value(Trim(bytes)) THEN Some(Trim(bytes)) ELSE None

\* Header::is_name
is_name(h, other) == EqIgnoreAsciiCase(HeaderName(h), other)

RECURSIVE get_header(_, _)
\* header::get_header: the value of the first header of that name
get_header(headers, name) ==
    IF Len(headers) = 0 THEN None
    ELSE IF is_name(Head(headers), name) THEN HeaderValue(Head(headers))
    ELSE get_header(Tail(headers), name)

has_header(headers, name) == get_header(headers, name).kind = "Some"

(***************************************************************************)
(* Request::do_call (request.rs) and unit::connect, connect_inner,         *)
(* connect_socket and send_prelude (unit.rs).                              *)
(* cn.io counts the operations on the network (connect, write, read) and   *)
(* cn.attempts the connection attempts.                                    *)
(***************************************************************************)
\* largest configured redirect maximum (AgentConfig::redirects)
MaxRedirects == 3

MethodGet == <<71, 69, 84>>
MethodHead == <<72, 69, 65, 68>>
MethodPost == <<80, 79, 83, 84>>
MethodOptions == <<79, 80, 84, 73, 79, 78, 83>>
MethodTrace == <<84, 82, 65, 67, 69>>
MethodDelete == <<68, 69, 76, 69, 84, 69>>

NameAuthorization == <<65, 117, 116, 104, 111, 114, 105, 122, 97, 116, 105, 111, 110>>
NameCookie == <<67, 111, 111, 107, 105, 101>>
NameHost == <<72, 111, 115, 116>>
NameUserAgent == <<85, 115, 101, 114, 45, 65, 103, 101, 110, 116>>
NameAccept == <<65, 99, 99, 101, 112, 116>>
NameLocation == <<108, 111, 99, 97, 116, 105, 111, 110>>
HdrLocation == <<76, 111, 99, 97, 116, 105, 111, 110>>
TextLowerHost == <<104, 111, 115, 116>>
TextLowerUserAgent == <<117, 115, 101, 114, 45, 97, 103, 101, 110, 116>>
TextLowerAccept == <<97, 99, 99, 101, 112, 116>>
TextAcceptAll == <<42, 47, 42>>
\* AgentConfig::user_agent
UserAgent == <<117, 114, 101, 113>>

SchemeHttp == <<104, 116, 116, 112>>
SchemeHttps == <<104, 116, 116, 112, 115>>
SchemeTest == <<116, 101, 115, 116>>
SchemeFtp == <<102, 116, 112>>

\* a parsed url::Url; port 0 stands for no port
UrlOf(scheme, host, port, path) ==
    [scheme |-> scheme, host |-> host, port |-> port, path |-> path]

RECURSIVE Decimal(_)
\* the decimal digits of a number, as Display writes them
Decimal(n) == IF n < 10 THEN <<48 + n>> ELSE Decimal(n \div 10) \o <<48 + (n % 10)>>

\* Url::to_string
UrlToString(url) ==
    url.scheme \o <<58, 47, 47>> \o url.host
        \o (IF url.port = 0 THEN <<>> ELSE <<COLON>> \o Decimal(url.port)) \o url.path

\* the Location values a server sends: a path, a url of another host with
\* a port, a url of a scheme the client does not speak, and text that
\* Url::join rejects
LocPath == <<47, 110>>
LocOtherHost == <<104, 116, 116, 112, 58, 47, 47, 98, 58, 56, 49, 47>>
LocFtp == <<102, 116, 112, 58, 47, 47, 99, 47>>
LocBad == <<104, 116, 116, 112, 58, 47, 47>>
Locations == {LocPath, LocOtherHost, LocFtp, LocBad}

\* url.join(location).map_err(..InvalidUrl..) for the locations above
JoinLocation(url, location) ==
    IF location = LocPath THEN [kind |-> "Ok", url |-> [url EXCEPT !.path = LocPath]]
    ELSE IF location = LocOtherHost
         THEN [kind |-> "Ok", url |-> UrlOf(SchemeHttp, <<98>>, 81, <<47>>)]
    ELSE IF location = LocFtp
         THEN [kind |-> "Ok", url |-> UrlOf(SchemeFtp, <<99>>, 0, <<47>>)]
    ELSE [kind |-> "Err", variant |-> "Transport", err |-> "InvalidUrl"]

\* Request::parse_url for the url texts of the model: a url of the first
\* host, a url with a scheme the client does not speak, and text without
\* a scheme
TextUrlA == <<104, 116, 116, 112, 58, 47, 47, 97, 47>>
TextUrlFtp == <<102, 116, 112, 58, 47, 47, 97, 47>>
TextUrlBad == <<97>>
parse_url(text) ==
    IF text = TextUrlA THEN [kind |-> "Ok", url |-> UrlOf(SchemeHttp, <<97>>, 0, <<47>>)]
    ELSE IF text = TextUrlFtp THEN [kind |-> "Ok", url |-> UrlOf(SchemeFtp, <<97>>, 0, <<47>>)]
    ELSE [kind |-> "Err", variant |-> "Transport", err |-> "InvalidUrl"]

\* the heads read_status_and_headers hands to do_from_stream: every status
\* of the model without and with a Location header, and malformed heads (a
\* status line without reason phrase, a head without line feed, a header
\* line without colon, a status line of 12 bytes)
FinalCodes == {200, 399, 400, 500}
RedirectCodes == {300, 301, 302, 303, 307, 308}
ServerHeads ==
    {StatusLineOf(c) : c \in FinalCodes}
        \cup {StatusLineOf(c) \o l : c \in RedirectCodes,
                l \in {<<>>, Line(HdrLocation, LocPath), Line(HdrLocation, LocOtherHost)}}
        \cup {StatusLineOf(302) \o Line(HdrLocation, l) : l \in {LocFtp, LocBad}}
        \cup {StatusLineOf(200) \o Line(HdrLocation, LocPath),
              <<72, 84, 84, 80, 47, 49, 46, 49, 32, 51, 48, 50, 13, 10>>, <<72>>, StatusLineOf(200) \o <<120, 13, 10>>,
              <<72, 84, 84, 80, 47, 49, 46, 49, 32, 50, 13, 10>>}

\* the request headers of the model: none, an Authorization header, one in
\* lower case next to a Content-Length and a Host header, and a header that
\* Header::validate rejects
RequestHeaders ==
    {<<>>,
     <<HeaderNew(NameAuthorization, <<115>>)>>,
     <<HeaderNew(<<97, 117, 116, 104, 111, 114, 105, 122, 97, 116, 105, 111, 110>>, <<116>>), HeaderNew(HdrContentLength, <<49>>),
       HeaderNew(NameHost, <<104>>)>>,
     <<HeaderNew(<<97, 32, 98>>, <<120>>)>>}

Methods == {MethodGet, MethodHead, MethodPost, MethodOptions, MethodDelete}

Requests ==
    {[method |-> m, url |-> TextUrlA, headers |-> hs] : m \in Methods, hs \in RequestHeaders}
        \cup {[method |-> MethodGet, url |-> u, headers |-> <<>>] : u \in {TextUrlFtp, TextUrlBad}}

NoUnit == [method |-> <<>>, url |-> UrlOf(<<>>, <<>>, 0, <<>>), headers |-> <<>>]
NoPrelude == [method |-> <<>>, path |-> <<>>, headers |-> <<>>]
NoResult == [kind |-> "none"]
\* Error::Transport with the given ErrorKind
Err(kind) == [kind |-> "Err", variant |-> "Transport", err |-> kind]

ConnectInit ==
    /\ rd = Idle /\ sl = Idle /\ br = Idle /\ cr = Idle /\ up = Idle /\ hd = Idle /\ ch = Idle /\ pl = Idle /\ hl = Idle /\ pr = Idle
    /\ cn \in {[pc |-> "do_call", request |-> rq, redirects |-> n, unit |-> NoUnit,
                history |-> <<>>, attempts |-> 0, io |-> 0, io_at_return |-> 0,
                prelude |-> NoPrelude, sent |-> 0, resp |-> NoResult,
                connect_result |-> NoResult, result |-> NoResult] :
                    rq \in Requests, n \in 0..MaxRedirects}

\* connect_inner is called again for an error, while the hop has made no
\* more than one attempt
ConnectReturnRetries(c, r) ==
    IF r.kind = "Err" /\ c.attempts <= Len(c.history) + 1
    THEN [c EXCEPT !.pc = "connect_socket"]
    ELSE [c EXCEPT !.pc = "connected", !.connect_result = r, !.io_at_return = c.io]

\* connect returns r: `?`, `return Err(..)`, or the value of the loop
ConnectReturn(c, r) ==
    [c EXCEPT !.pc = "connected", !.connect_result = r, !.io_at_return = c.io]

\* Request::do_call up to the call of unit::connect
DoCall ==
    /\ cn.pc = "do_call"
    /\ LET url == parse_url(cn.request.url)
       IN  cn' = IF \E i \in 1..Len(cn.request.headers) : ~validate(cn.request.headers[i])
                 THEN [cn EXCEPT !.pc = "done", !.result = Err("BadHeader")]
                 ELSE IF url.kind = "Err"
                 THEN [cn EXCEPT !.pc = "done", !.result = url]
                 ELSE [cn EXCEPT !.pc = "connect_socket",
                                 !.unit = [method |-> cn.request.method, url |-> url.url,
                                           headers |-> cn.request.headers]]
    /\ UNCHANGED <<rd, sl, br, cr, up, hd, ch, pl, hl, pr>>

\* connect_socket, as connect_inner calls it at the start of every loop
\* iteration of connect: the scheme check, then one connection attempt
ConnectSocket ==
    /\ cn.pc = "connect_socket"
    /\ IF cn.unit.url.scheme \notin {SchemeHttp, SchemeHttps, SchemeTest}
       THEN cn' = ConnectReturn(cn, Err("UnknownScheme"))
       ELSE \E outcome \in {"Ok", "Dns", "ConnectionFailed"} :
              LET c == [cn EXCEPT !.attempts = @ + 1, !.io = @ + 1]
              IN  cn' = IF outcome = "Ok" THEN [c EXCEPT !.pc = "send_prelude"]
                        ELSE ConnectReturn(c, Err(outcome))
    /\ UNCHANGED <<rd, sl, br, cr, up, hd, ch, pl, hl, pr>>

\* a Host value that carries every port the url has
HostHeaderValueWithPort(url) ==
    IF url.port = 0 THEN url.host ELSE url.host \o <<COLON>> \o Decimal(url.port)

\* the value written after "Host: ": the host, with the port unless it is
\* the default port of the scheme
HostHeaderValue(url) ==
    LET scheme_default == IF url.scheme = SchemeHttp THEN 80
                          ELSE IF url.scheme = SchemeHttps THEN 443 ELSE 0
    IN  IF url.port = 0 \/ (scheme_default # 0 /\ scheme_default = url.port)
        THEN url.host
        ELSE url.host \o <<COLON>> \o Decimal(url.port)

RECURSIVE OtherHeadersOfFirstRequest(_, _)
\* the loop without the test of redir
OtherHeadersOfFirstRequest(headers, redir) ==
    IF Len(headers) = 0 THEN <<>>
    ELSE LET header == Head(headers)
             v == HeaderValue(header)
         IN  (IF v.kind = "Some"
              THEN <<[name |-> HeaderName(header), value |-> v.v]>> ELSE <<>>)
                 \o OtherHeadersOfFirstRequest(Tail(headers), redir)

RECURSIVE OtherHeaders(_, _)
\* the loop over unit.headers of send_prelude
OtherHeaders(headers, redir) ==
    IF Len(headers) = 0 THEN <<>>
    ELSE LET header == Head(headers)
             v == HeaderValue(header)
         IN  (IF (~redir \/ ~is_name(header, NameAuthorization)) /\ v.kind = "Some"
              THEN <<[name |-> HeaderName(header), value |-> v.v]>> ELSE <<>>)
                 \o OtherHeaders(Tail(headers), redir)

\* the prelude send_prelude builds: the request line and the header lines
Prelude(unit, redir) ==
    [method |-> unit.method, path |-> unit.url.path,
     headers |->
        (IF ~has_header(unit.headers, TextLowerHost)
         THEN <<[name |-> NameHost, value |-> HostHeaderValue(unit.url)]>> ELSE <<>>)
        \o (IF ~has_header(unit.headers, TextLowerUserAgent)
            THEN <<[name |-> NameUserAgent, value |-> UserAgent]>> ELSE <<>>)
        \o (IF ~has_header(unit.headers, TextLowerAccept)
            THEN <<[name |-> NameAccept, value |-> TextAcceptAll]>> ELSE <<>>)
        \o OtherHeaders(unit.headers, redir)]

\* send_prelude, as connect_inner calls it: redir is !previous.is_empty()
SendPrelude ==
    /\ cn.pc = "send_prelude"
    /\ \E written \in BOOLEAN :
         LET redir == Len(cn.history) > 0
             c == [cn EXCEPT !.io = @ + 1, !.sent = @ + 1,
                             !.prelude = Prelude(cn.unit, redir)]
         IN  cn' = IF written THEN [c EXCEPT !.pc = "read_response"]
                   ELSE ConnectReturn(c, Err("Io"))
    /\ UNCHANGED <<rd, sl, br, cr, up, hd, ch, pl, hl, pr>>

\* Response::do_from_request, as connect_inner calls it: the read of the
\* head fails, or do_from_stream makes a Response or an error of the head
ReadResponse ==
    /\ cn.pc = "read_response"
    /\ LET c == [cn EXCEPT !.io = @ + 1]
       IN  \/ cn' = ConnectReturn(c, Err("Io"))
           \/ \E head \in ServerHeads :
                LET sp == SplitStatusLine(head)
                    hs == HeadersTryFrom(sp.headers)
                IN  cn' = IF sp.kind = "panic" THEN ConnectReturn(c, [kind |-> "panic"])
                          ELSE IF sp.kind # "Ok" THEN ConnectReturn(c, Err(sp.kind))
                          ELSE IF hs.kind = "panic" THEN ConnectReturn(c, [kind |-> "panic"])
                          ELSE IF hs.kind # "Ok" THEN ConnectReturn(c, Err(hs.kind))
                          ELSE [c EXCEPT !.pc = "redirect",
                                         !.resp = [kind |-> "Ok",
                                                   status_line |-> sp.status_line,
                                                   headers |-> hs]]
    /\ UNCHANGED <<rd, sl, br, cr, up, hd, ch, pl, hl, pr>>

\* the match on the status of connect: Some(method of the next request), or
\* None for `break resp`
new_method_downgrades_307(status, method) ==
    IF status \in {301, 302, 303, 307, 308}
    THEN Some(IF method \in {MethodGet, MethodHead} THEN method ELSE MethodGet)
    ELSE None

new_method_keeps(status, method) ==
    IF status \in {301, 302, 303} THEN Some(method)
    ELSE IF status \in {307, 308}
            /\ method \in {MethodGet, MethodHead, MethodOptions, MethodTrace}
    THEN Some(method)
    ELSE None

new_method(status, method) ==
    IF status \in {301, 302, 303}
    THEN Some(IF method \in {MethodGet, MethodHead} THEN method ELSE MethodGet)
    ELSE IF status \in {307, 308}
            /\ method \in {MethodGet, MethodHead, MethodOptions, MethodTrace}
    THEN Some(method)
    ELSE None

\* the limit, reached two redirects later
TooManyRedirectsLate(history, redirects) == Len(history) + 1 >= redirects + 2

\* history.len() + 1 >= unit.agent.config.redirects
TooManyRedirects(history, redirects) == Len(history) + 1 >= redirects

\* Vec::retain(|h| h.name() != "Content-Length")
RetainHeaders(headers) == SelectSeq(headers, LAMBDA h : HeaderName(h) # HdrContentLength)

\* the rest of a loop iteration of connect, after connect_inner returned
\* Ok(resp): the status line, the redirect decision and the next unit
HandleResponse ==
    /\ cn.pc = "redirect"
    /\ LET line == get_status_line(cn.resp)
           location == ResponseHeader(cn.resp, NameLocation)
           new_url == JoinLocation(cn.unit.url, location.v)
           method == new_method(line.status, cn.unit.method)
       IN  cn' = IF line.kind = "panic" THEN ConnectReturn(cn, line)
                 ELSE IF line.kind # "Ok" THEN ConnectReturn(cn, Err(line.kind))
                 ELSE IF ~(line.status >= 300 /\ line.status < 399) \/ cn.redirects = 0
                 THEN ConnectReturn(cn, cn.resp)
                 ELSE IF TooManyRedirects(cn.history, cn.redirects)
                 THEN ConnectReturn(cn, Err("TooManyRedirects"))
                 ELSE IF location.kind = "panic" THEN ConnectReturn(cn, location)
                 ELSE IF location.kind = "None" THEN ConnectReturn(cn, cn.resp)
                 ELSE IF new_url.kind = "Err" THEN ConnectReturn(cn, new_url)
                 ELSE IF method.kind = "None" THEN ConnectReturn(cn, cn.resp)
                 ELSE [cn EXCEPT !.pc = "connect_socket",
                                 !.history = Append(@, UrlToString(cn.unit.url)),
                                 !.unit = [method |-> method.v, url |-> new_url.url,
                                           headers |-> RetainHeaders(cn.unit.headers)]]
    /\ UNCHANGED <<rd, sl, br, cr, up, hd, ch, pl, hl, pr>>

\* Error::kind
kind(e) == IF e.variant = "Status" THEN "HTTP" ELSE e.err

\* Response::status: the code of the status line
status(resp) == get_status_line(resp).status

\* the value of do_call for the response connect returned
do_call_result_from_401(response) ==
    IF status(response) > 400
    THEN [kind |-> "Err", variant |-> "Status", status |-> status(response),
          response |-> response]
    ELSE response

do_call_result(response) ==
    IF status(response) >= 400
    THEN [kind |-> "Err", variant |-> "Status", status |-> status(response),
          response |-> response]
    ELSE response

\* Request::do_call after unit::connect returned: `?` on an error, else the
\* test of the status
DoCallReturn ==
    /\ cn.pc = "connected"
    /\ cn' = [cn EXCEPT !.pc = "done",
                        !.result = IF cn.connect_result.kind = "Ok"
                                   THEN do_call_result(cn.connect_result)
                                   ELSE cn.connect_result]
    /\ UNCHANGED <<rd, sl, br, cr, up, hd, ch, pl, hl, pr>>

ConnectNext ==
    DoCall \/ ConnectSocket \/ SendPrelude \/ ReadResponse \/ HandleResponse \/ DoCallReturn

ConnectSpec == ConnectInit /\ [][ConnectNext]_vars

\* connect with its scheduling: a call that can take a step takes it
ConnectLiveSpec == ConnectSpec /\ WF_vars(ConnectNext)

(***************************************************************************)
(* Properties of connect and do_call.                                      *)
(***************************************************************************)
\* the redirect responses this call has received: the followed ones, and
\* the one connect is looking at or has stopped at
Returned == cn.pc \in {"connected", "done"}

\* connect is about to decide on a response with this status that carries
\* a Location header the url can be joined with, with redirects enabled
\* and the limit not reached
RedirectCase(codes) ==
    /\ cn.pc = "redirect"
    /\ get_status_line(cn.resp).kind = "Ok"
    /\ get_status_line(cn.resp).status \in codes
    /\ cn.redirects # 0
    /\ Len(cn.history) + 1 < cn.redirects
    /\ ResponseHeader(cn.resp, NameLocation).kind = "Some"
    /\ JoinLocation(cn.unit.url, ResponseHeader(cn.resp, NameLocation).v).kind = "Ok"

\* the next request goes out with this method
FollowedWith(method) == cn'.pc = "connect_socket" /\ cn'.unit.method = method

\* C13: with a redirect maximum N >= 1, TooManyRedirects is returned only
\* when the redirects received (the followed ones and the last one) exceed
\* N: N redirects and a final response are followed to the end.
C13_TooManyOnlyBeyondMaximum ==
    (Returned /\ cn.redirects >= 1 /\ cn.connect_result = Err("TooManyRedirects")) =>
        Len(cn.history) + 1 > cn.redirects

\* C14: one call of connect terminates, makes no more connection attempts
\* than the redirect maximum plus one, and does no connect, write or read
\* once TooManyRedirects is decided.
C14_ConnectTerminatesWithinLimit ==
    /\ [](cn.attempts <= cn.redirects + 1)
    /\ [](cn.connect_result = Err("TooManyRedirects") => cn.io = cn.io_at_return)
    /\ <>(cn.pc = "done")

C14_Witness ==
    /\ cn.pc = "done"
    /\ cn.result = Err("TooManyRedirects")
    /\ cn.redirects = 3 /\ cn.attempts = 3

\* C15 as stated: a 307 or 308 with a Location is followed with the method
\* of the request, for every method.
C15_TemporaryRedirectFollowedForEveryMethod ==
    [][RedirectCase({307, 308}) => FollowedWith(cn.unit.method)]_vars

\* C15 as the code has it: a 307 or 308 with a Location is followed with the
\* method of the request when that is GET, HEAD, OPTIONS or TRACE; for every
\* other method it is not followed and connect returns the 307/308 response.
\* The method is never changed.
C15_TemporaryRedirectKeepsMethod ==
    [][RedirectCase({307, 308}) =>
          IF cn.unit.method \in {MethodGet, MethodHead, MethodOptions, MethodTrace}
          THEN FollowedWith(cn.unit.method)
          ELSE /\ cn'.pc = "connected"
               /\ cn'.connect_result = cn.resp
               /\ cn'.unit = cn.unit]_vars

C15_Witness ==
    /\ cn.pc = "connect_socket"
    /\ Len(cn.history) > 0
    /\ cn.unit.method = MethodOptions

\* C16: a 301, 302 or 303 with a Location is followed with the method of
\* the request when that is GET or HEAD, and with GET for every other method.
C16_PermanentRedirectDowngrades ==
    [][RedirectCase({301, 302, 303}) =>
          FollowedWith(IF cn.unit.method \in {MethodGet, MethodHead}
                       THEN cn.unit.method ELSE MethodGet)]_vars

C16_Witness ==
    /\ cn.pc = "connect_socket"
    /\ Len(cn.history) > 0
    /\ cn.request.method = MethodPost
    /\ cn.unit.method = MethodGet

\* the header lines of a prelude whose name is Authorization in any case
AuthorizationLines(lines) ==
    {i \in 1..Len(lines) : EqIgnoreAsciiCase(lines[i].name, NameAuthorization)}

\* C17: a request sent after a redirect was followed has no Authorization
\* header in any letter case; the first request of the chain has every
\* Authorization header of the caller, name and value unchanged.
C17_AuthorizationOnFirstRequestOnly ==
    /\ (cn.sent >= 2) => AuthorizationLines(cn.prelude.headers) = {}
    /\ (cn.sent = 1) =>
          \A i \in 1..Len(cn.request.headers) :
              LET h == cn.request.headers[i]
              IN  is_name(h, NameAuthorization) =>
                      \E j \in AuthorizationLines(cn.prelude.headers) :
                          /\ cn.prelude.headers[j].name = HeaderName(h)
                          /\ cn.prelude.headers[j].value
                                = Trim(Slice(h.line, h.index + 1, Len(h.line)))

C17_Witness ==
    /\ cn.sent >= 2
    /\ \E i \in 1..Len(cn.request.headers) : is_name(cn.request.headers[i], NameAuthorization)

\* C18: an error of connect is the caller's result, unchanged; no connect,
\* write or read happens after it; each hop has made one connection attempt
\* and at most one write and one read, and nothing is retried.
C18_ErrorsPropagateWithoutRetry ==
    /\ cn.attempts <= Len(cn.history) + 1
    /\ cn.io <= 3 * cn.attempts
    /\ (Returned /\ cn.connect_result.kind = "Err") => cn.io = cn.io_at_return
    /\ (cn.pc = "done" /\ cn.connect_result.kind = "Err") => cn.result = cn.connect_result

C18_Witness ==
    /\ cn.pc = "done"
    /\ cn.result = Err("Io")
    /\ Len(cn.history) >= 1
    /\ cn.io = 3 * cn.attempts

\* C19: do_call returns Err(Status(code, response)) with the whole response
\* exactly when the status of the final response is >= 400, and Ok(response)
\* for every status below, a 3xx that was not followed included; a status
\* error is not a Transport error and its kind is HTTP.
C19_StatusErrorFrom400 ==
    (cn.pc = "done" /\ cn.connect_result.kind \in {"Ok", "Err"}) =>
        IF cn.connect_result.kind = "Ok" /\ CodeOf(cn.connect_result.status_line) >= 400
        THEN /\ cn.result.kind = "Err"
             /\ cn.result.variant = "Status"
             /\ cn.result.status = CodeOf(cn.connect_result.status_line)
             /\ cn.result.response = cn.connect_result
             /\ kind(cn.result) = "HTTP"
        ELSE /\ cn.result = cn.connect_result
             /\ (cn.result.kind = "Err") => cn.result.variant = "Transport"

C19_Witness ==
    /\ cn.pc = "done"
    /\ cn.result.kind = "Err"
    /\ cn.result.variant = "Status"
    /\ cn.result.status = 400

(***************************************************************************)
(* Url::parse (url.rs).  A url text is a sequence of bytes of a str; tls   *)
(* tells whether the build has the feature "tls".                          *)
(***************************************************************************)
\* the longest text Url::parse accepts (256 in url.rs), scaled down; the
\* offsets of a Url are kept in u8, which holds the values below it
UrlCap == 12

\* `as u8` on an offset
AsU8(n) == n % UrlCap

\* str::parse::<u16>: an optional '+' and decimal digits, up to 65535
ParseU16(s) ==
    LET r == ParseUsize(s)
    IN  IF r.kind = "Some" /\ Len(s) <= 6 /\ r.v <= 65535 THEN r ELSE None

\* the match on the scheme text: Some(scheme), or None for Err(Scheme)
scheme_of_any_text(text, tls) == Some(text)

scheme_of(text, tls) ==
    IF text = SchemeHttp THEN Some(SchemeHttp)
    ELSE IF tls /\ text = SchemeHttps THEN Some(SchemeHttps)
    ELSE None

\* a url::Error as Url::parse returns it
UrlError(e) == [kind |-> "Err", err |-> e]

\* meta: u64 = (ho << 32) | (port << 16) | pa, kept as its three fields: ho
\* in bits 32..47, port in bits 16..31 and pa in bits 0..15, each below 2^16
Meta(ho, port, pa) == [ho |-> ho, port |-> port, pa |-> pa]

\* Url::parse
parse(s, tls) ==
    IF Len(s) = 0 \/ Len(s) > UrlCap THEN UrlError("UnsupportedLength")
    ELSE IF \E i \in 1..Len(s) : ~IsAscii(s[i]) THEN UrlError("Ascii")
    ELSE LET si == MemFind(s, <<58, 47, 47>>)
         IN  IF si = -1 THEN UrlError("Scheme")
             ELSE LET scheme == scheme_of(Slice(s, 0, si), tls)
                      hi == si + 3
                      slash == Memchr(47, Slice(s, hi, Len(s)))
                  IN  IF scheme.kind = "None" THEN UrlError("Scheme")
                      ELSE IF slash = -1 THEN UrlError("Host")
                      ELSE LET hj == hi + slash
                               pk == Memchr(COLON, Slice(s, hi, hj))
                               v == IF scheme.v = SchemeHttp THEN 80 ELSE 443
                               p == IF pk = -1 THEN None
                                    ELSE ParseU16(Slice(s, hi + pk, hj))
                               port == IF p.kind = "Some" THEN p.v ELSE v
                               l == AsU8(IF pk = -1 THEN hj ELSE pk)
                               ho == AsU8(hi) * 256 + l
                               pa == AsU8(hj) * 256 + AsU8(Len(s))
                           IN  [kind |-> "Ok", serialization |-> s, scheme |-> scheme.v,
                                meta |-> Meta(ho, port, pa)]

\* &serialization[i..j]: a panic when the range is not within the text
StrSlice(s, i, j) ==
    IF i > j \/ j > Len(s) THEN [kind |-> "panic"] ELSE [kind |-> "Ok", v |-> Slice(s, i, j)]

\* Url::host_str
host_str(url) ==
    LET m == url.meta.ho
    IN  StrSlice(url.serialization, m \div 256, m % 256)

\* Url::path
path(url) ==
    LET m == url.meta.pa
    IN  StrSlice(url.serialization, m \div 256, m % 256)

\* Url::port
port(url) == url.meta.port

\* the texts given to Url::parse: a scheme, a separator, an authority and a
\* path, each of them missing or malformed in some of the texts
UrlTexts ==
    {a \o b \o c \o d : a \in {<<>>, SchemeHttp, SchemeHttps, SchemeFtp},
                        b \in {<<>>, <<58, 47, 47>>, <<58, 47>>},
                        c \in {<<>>, <<97>>, <<97, 58, 56>>, <<58, 56>>, <<195, 169>>},
                        d \in {<<>>, <<47>>, <<47, 112, 113>>}}

UrlInit ==
    /\ rd = Idle /\ sl = Idle /\ br = Idle /\ cr = Idle /\ cn = Idle /\ hd = Idle /\ ch = Idle /\ pl = Idle /\ hl = Idle /\ pr = Idle
    /\ up \in {[pc |-> "parse", s |-> s, tls |-> tls, result |-> NoResult,
                 host_str |-> NoResult, path |-> NoResult, port |-> NoResult] :
                    s \in UrlTexts, tls \in BOOLEAN}

UrlParse ==
    /\ up.pc = "parse"
    /\ up' = [up EXCEPT !.pc = "done", !.result = parse(up.s, up.tls)]
    /\ UNCHANGED <<rd, sl, br, cr, cn, hd, ch, pl, hl, pr>>

\* a call of Url::host_str on the parsed url
UrlHostStr ==
    /\ up.pc = "done" /\ up.result.kind = "Ok" /\ up.host_str = NoResult
    /\ up' = [up EXCEPT !.host_str = host_str(up.result)]
    /\ UNCHANGED <<rd, sl, br, cr, cn, hd, ch, pl, hl, pr>>

\* a call of Url::path on the parsed url
UrlPath ==
    /\ up.pc = "done" /\ up.result.kind = "Ok" /\ up.path = NoResult
    /\ up' = [up EXCEPT !.path = path(up.result)]
    /\ UNCHANGED <<rd, sl, br, cr, cn, hd, ch, pl, hl, pr>>

\* a call of Url::port on the parsed url
UrlPort ==
    /\ up.pc = "done" /\ up.result.kind = "Ok" /\ up.port = NoResult
    /\ up' = [up EXCEPT !.port = [kind |-> "Ok", v |-> port(up.result)]]
    /\ UNCHANGED <<rd, sl, br, cr, cn, hd, ch, pl, hl, pr>>

UrlNext == UrlParse \/ UrlHostStr \/ UrlPath \/ UrlPort

UrlSpec == UrlInit /\ [][UrlNext]_vars

\* the text has "://", and no '/' after the first one
NoSlashAfterAuthority(s) ==
    /\ MemFind(s, <<58, 47, 47>>) # -1
    /\ \A i \in (MemFind(s, <<58, 47, 47>>) + 4)..Len(s) : s[i] # 47

\* the text Url::parse looks at: not empty, no longer than the limit, ASCII
UrlTextInRange(s) ==
    Len(s) > 0 /\ Len(s) <= UrlCap /\ \A i \in 1..Len(s) : IsAscii(s[i])

\* C20 as stated: the Scheme error for every text without "://", the Host
\* error for every text whose authority is not followed by a '/'.
C20_SchemeAndHostErrors ==
    (up.pc = "done") =>
        /\ (MemFind(up.s, <<58, 47, 47>>) = -1) => up.result = UrlError("Scheme")
        /\ NoSlashAfterAuthority(up.s) => up.result = UrlError("Host")

\* C20 as the code has it: an empty or too long text is UnsupportedLength
\* and a text that is not ASCII is Ascii, whatever else it holds; of the
\* other texts, one without "://" or with a scheme the build does not have
\* is the Scheme error, and one with such a scheme and no '/' after the
\* authority is the Host error.
C20_ErrorsInOrder ==
    (up.pc = "done") =>
        LET s == up.s
            si == MemFind(s, <<58, 47, 47>>)
            known == Slice(s, 0, si) = SchemeHttp \/ (up.tls /\ Slice(s, 0, si) = SchemeHttps)
        IN  IF Len(s) = 0 \/ Len(s) > UrlCap THEN up.result = UrlError("UnsupportedLength")
            ELSE IF ~UrlTextInRange(s) THEN up.result = UrlError("Ascii")
            ELSE IF si = -1 \/ ~known THEN up.result = UrlError("Scheme")
            ELSE IF NoSlashAfterAuthority(s) THEN up.result = UrlError("Host")
            ELSE up.result.kind = "Ok"

C20_Witness ==
    /\ up.pc = "done"
    /\ up.result = UrlError("Host")
    /\ NoSlashAfterAuthority(up.s)

\* the parts of an accepted url text: the authority is the text between
\* "://" and the first '/' after it, the host the authority up to its
\* first ':', the port text what follows that ':'
AuthorityStart(s) == MemFind(s, <<58, 47, 47>>) + 3
AuthorityEnd(s) == AuthorityStart(s) + Memchr(47, Slice(s, AuthorityStart(s), Len(s)))
AuthorityOf(s) == Slice(s, AuthorityStart(s), AuthorityEnd(s))
HostOf(s) ==
    IF Memchr(COLON, AuthorityOf(s)) = -1 THEN AuthorityOf(s)
    ELSE Slice(AuthorityOf(s), 0, Memchr(COLON, AuthorityOf(s)))
PortTextOf(s) == Slice(AuthorityOf(s), Memchr(COLON, AuthorityOf(s)) + 1, Len(AuthorityOf(s)))
SchemeDefault(s) == IF Slice(s, 0, MemFind(s, <<58, 47, 47>>)) = SchemeHttp THEN 80 ELSE 443

\* C21: port() is the decimal number written after the ':' of the authority
\* when that is a number in 0..65535, and the default of the scheme (80,
\* 443) when it is not, or when the authority has no ':'.
C21_PortIsWrittenPort ==
    (up.port.kind = "Ok") =>
        up.port.v =
            IF Memchr(COLON, AuthorityOf(up.s)) # -1 /\ ParseU16(PortTextOf(up.s)).kind = "Some"
            THEN ParseU16(PortTextOf(up.s)).v
            ELSE SchemeDefault(up.s)

\* C22: for every accepted text the host and path offsets of meta satisfy
\* start <= end <= length, and host_str() and path() never panic.
C22_OffsetsInBounds ==
    /\ (up.pc = "done" /\ up.result.kind = "Ok") =>
          LET m == up.result.meta
          IN  /\ m.ho \div 256 <= m.ho % 256 /\ m.ho % 256 <= Len(up.s)
              /\ m.pa \div 256 <= m.pa % 256 /\ m.pa % 256 <= Len(up.s)
    /\ up.host_str.kind # "panic"
    /\ up.path.kind # "panic"

\* C23: a text with an empty host is rejected: no Url with an empty host is
\* constructed.
C23_EmptyHostRejected ==
    (up.pc = "done" /\ up.result.kind = "Ok") => HostOf(up.s) # <<>>

\* C24: host_str() is the authority up to its first ':' (or all of it), and
\* path() the text from the first '/' after the authority to the end, with
\* and without a port.
C24_HostAndPathExact ==
    /\ (up.host_str # NoResult) => up.host_str = [kind |-> "Ok", v |-> HostOf(up.s)]
    /\ (up.path # NoResult) =>
          up.path = [kind |-> "Ok", v |-> Slice(up.s, AuthorityEnd(up.s), Len(up.s))]

(***************************************************************************)
(* Header blocks: Headers::try_from (header.rs) on a whole block, and      *)
(* Response::header (response.rs) on the Headers value it returns.         *)
(***************************************************************************)
RECURSIVE Concat(_)
Concat(ls) == IF ls = <<>> THEN <<>> ELSE Head(ls) \o Concat(Tail(ls))

\* the lines of the enumerated blocks: headers with and without CR and
\* surrounding whitespace, a name and a value that are not UTF-8, a line
\* without a colon and the two empty lines
HeaderLines ==
    {<<65, 58, 32, 98, 13, 10>>, <<97, 58, 99, 10>>, <<88, 58, 32, 32, 121, 32, 13, 10>>, <<255>> \o <<58, 32, 118, 13, 10>>,
     <<71, 58, 32>> \o <<255>> \o <<13, 10>>, <<98, 97, 100, 13, 10>>, <<10>>, <<13, 10>>}

\* a header line of n bytes before its line feed
LongLine(n) == <<65, 58>> \o [i \in 1..(n - 2) |-> 98] \o <<LF>>

\* the blocks given to try_from, each with the sequence of its lines: every
\* block of up to maxlines lines, the blocks at the two limits, and a block
\* with a repeated name after a name that is not UTF-8
HeaderBlocks(maxlines) ==
    {[lines |-> ls, block |-> Concat(ls)] :
        ls \in SeqsUpTo(HeaderLines, maxlines) \cup
               {<<LongLine(MAX_HEADER_SIZE)>>,
                <<LongLine(MAX_HEADER_SIZE + 1)>>,
                <<<<65, 58, 32, 98, 13, 10>>, LongLine(MAX_HEADER_SIZE + 1)>>,
                <<<<10>>, LongLine(MAX_HEADER_SIZE + 1)>>,
                <<<<255>> \o <<58, 32, 118, 13, 10>>, <<65, 58, 32, 98, 13, 10>>, <<97, 58, 99, 10>>>>,
                [i \in 1..MAX_HEADER_COUNT |-> <<65, 58, 98, 10>>],
                [i \in 1..(MAX_HEADER_COUNT + 1) |-> <<65, 58, 98, 10>>]}}

\* the names asked of Response::header
LookupNames == {<<97>>, <<65>>, <<120>>, <<103>>}

HeaderInit ==
    /\ rd = Idle /\ sl = Idle /\ br = Idle /\ cr = Idle /\ cn = Idle /\ up = Idle /\ ch = Idle /\ pl = Idle /\ hl = Idle /\ pr = Idle
    /\ hd \in {[pc |-> "block", lines |-> b.lines, block |-> b.block, headers |-> NoResult,
                 name |-> <<>>, result |-> NoResult] : b \in HeaderBlocks(MaxLines)}

\* Headers::try_from(block)
HeaderTryFrom ==
    /\ hd.pc = "block"
    /\ hd' = [hd EXCEPT !.pc = "parsed", !.headers = HeadersTryFrom(hd.block)]
    /\ UNCHANGED <<rd, sl, br, cr, cn, up, ch, pl, hl, pr>>

\* Response::header(name) on a response that holds the parsed headers
HeaderLookup ==
    /\ hd.pc = "parsed"
    /\ hd.headers.kind = "Ok"
    /\ \E name \in LookupNames :
          hd' = [hd EXCEPT !.pc = "done", !.name = name,
                           !.result = ResponseHeader([headers |-> hd.headers], name)]
    /\ UNCHANGED <<rd, sl, br, cr, cn, up, ch, pl, hl, pr>>

HeaderNext == HeaderTryFrom \/ HeaderLookup

HeaderSpec == HeaderInit /\ [][HeaderNext]_vars

\* try_from has returned
BlockParsed == hd.pc \in {"parsed", "done"}

\* a line without its line end
LineBody(l) ==
    LET a == SubSeq(l, 1, Len(l) - 1)
    IN  IF Len(a) > 0 /\ a[Len(a)] = CR THEN SubSeq(a, 1, Len(a) - 1) ELSE a

HasColon(l) == \E i \in 1..Len(LineBody(l)) : LineBody(l)[i] = COLON

\* the bytes before and after the first colon of a line that has one
LineName(l) == Slice(LineBody(l), 0, Memchr(COLON, LineBody(l)))
LineValue(l) == Slice(LineBody(l), Memchr(COLON, LineBody(l)) + 1, Len(LineBody(l)))

\* C25: when a line of the block has no ':' (an empty line and a leading
\* line feed included) try_from returns BadHeader, and it returns Ok or
\* BadHeader for every block: it never panics.
C25_NoColonIsBadHeader ==
    BlockParsed =>
        /\ hd.headers.kind \in {"Ok", "BadHeader"}
        /\ (\E i \in 1..Len(hd.lines) : ~HasColon(hd.lines[i])) => hd.headers.kind = "BadHeader"

\* C26: for a block with a header line longer than MAX_HEADER_SIZE try_from
\* returns BadHeader: no panic, no Headers value with a shortened line.
C26_LongLineIsBadHeader ==
    (BlockParsed /\ \E i \in 1..Len(hd.lines) : Len(LineBody(hd.lines[i])) > MAX_HEADER_SIZE)
        => hd.headers.kind = "BadHeader"

\* C27: a block with more than MAX_HEADER_COUNT header lines is a BadHeader
\* error, and no Headers value holds more than MAX_HEADER_COUNT entries.
C27_HeaderCountBounded ==
    BlockParsed =>
        /\ Len(hd.lines) > MAX_HEADER_COUNT => hd.headers.kind = "BadHeader"
        /\ hd.headers.kind = "Ok" => Len(hd.headers.indices) <= MAX_HEADER_COUNT

\* the first line of the block whose name is `name` in some letter-casing,
\* 0 when there is none
FirstNamed(name) ==
    LET is == {i \in 1..Len(hd.lines) : LowerSeq(LineName(hd.lines[i])) = LowerSeq(name)}
    IN  IF is = {} THEN 0 ELSE CHOOSE i \in is : \A j \in is : i <= j

\* C28: for every parsed block and every letter-casing of a stored name,
\* Response::header returns the value of that header as text without its
\* leading and trailing whitespace.
C28_LookupIgnoresCase ==
    (hd.pc = "done" /\ FirstNamed(hd.name) # 0
                    /\ IsUtf8(LineValue(hd.lines[FirstNamed(hd.name)])))
        => hd.result = Some(Trim(LineValue(hd.lines[FirstNamed(hd.name)])))

\* a header line try_from accepts and whose name is text
TextNamedLine(l) ==
    HasColon(l) /\ IsUtf8(LineName(l)) /\ Len(LineBody(l)) <= MAX_HEADER_SIZE

\* a block of header lines with text names of which one has a value that
\* is not UTF-8
HasNonUtf8Value ==
    /\ \A i \in 1..Len(hd.lines) : TextNamedLine(hd.lines[i])
    /\ \E i \in 1..Len(hd.lines) : ~IsUtf8(LineValue(hd.lines[i]))

\* C29: a header value that is not UTF-8 does not fail the parse, the
\* header is stored, Response::header returns None for its name, and the
\* lookup of every other name returns what it returns without that header.
C29_NonUtf8ValueIsNone ==
    (BlockParsed /\ HasNonUtf8Value) =>
        /\ hd.headers.kind = "Ok"
        /\ Len(hd.headers.indices) = Len(hd.lines)
        /\ hd.pc = "done" =>
              hd.result =
                 IF FirstNamed(hd.name) = 0 THEN None
                 ELSE IF IsUtf8(LineValue(hd.lines[FirstNamed(hd.name)]))
                      THEN Some(Trim(LineValue(hd.lines[FirstNamed(hd.name)])))
                      ELSE None

\* C29 witness: "g" is looked up in a block whose header G has a value that
\* is not UTF-8, and the lookup returns None
C29_Witness ==
    /\ hd.pc = "done"
    /\ HasNonUtf8Value
    /\ hd.name = <<103>>
    /\ FirstNamed(hd.name) # 0
    /\ ~IsUtf8(LineValue(hd.lines[FirstNamed(hd.name)]))
    /\ hd.result = None

(***************************************************************************)
(* connect_host (stream.rs): the candidates of the resolver, one connect   *)
(* attempt per candidate, and the timeouts set on the connected stream.    *)
(***************************************************************************)
\* the io::ErrorKind of a TcpStream::connect that fails before any timeout
ConnectErrors == {"ConnectionRefused", "HostUnreachable"}

\* an Error of the given kind with its source
HostErr(k, src) == [kind |-> "Err", err |-> k, src |-> src]

\* time_until_deadline(deadline) when Instant::now() is now: an Instant is a
\* number of ticks, and checked_duration_since is None only when now is
\* later than the deadline, so that the remaining time can be zero
time_until_deadline(deadline, now) ==
    IF now > deadline THEN [kind |-> "Err", err |-> "TimedOut"]
    ELSE [kind |-> "Ok", v |-> deadline - now]

\* connect_deadline: Instant::now() + timeout_connect when the agent has a
\* connect timeout, and the deadline of the unit otherwise
connect_deadline(c) ==
    IF c.timeout_connect.kind = "Some" THEN Some(c.now + c.timeout_connect.v)
    ELSE c.deadline

\* attempted holds the outcome of the connect to every candidate tried, in
\* the order of sock_addrs; resolved is the length of the resolver's list
\* and n the length of sock_addrs; now is the clock. The deadline of the
\* unit was set by do_call and may have passed when connect_host is entered.
HostInit ==
    /\ rd = Idle /\ sl = Idle /\ br = Idle /\ cr = Idle /\ cn = Idle /\ up = Idle /\ hd = Idle /\ pl = Idle /\ hl = Idle /\ pr = Idle
    /\ ch \in {[pc |-> "resolve", now |-> 1, timeout_connect |-> tc, deadline |-> dl,
                 connect_deadline |-> None,
                 resolved |-> 0, n |-> 0, attempted |-> <<>>,
                 any_err |-> None, any_stream |-> None, result |-> NoResult] :
                    tc \in {None} \cup {Some(t) : t \in 1..(MaxTime - 2)},
                    dl \in {None} \cup {Some(d) : d \in 0..(MaxTime - 1)}}

\* connect_deadline, then netloc.to_socket_addrs().map_err(Dns)?.collect()
\* into SocketVec, and the is_empty test. No deadline applies to the lookup,
\* which takes dt ticks. Collecting more addresses than SocketVec holds
\* panics or keeps the first SocketCap of them, with the version of
\* arrayvec in the build.
HostResolve ==
    /\ ch.pc = "resolve"
    /\ \E dt \in 0..1 :
       \/ ch' = [ch EXCEPT !.pc = "done", !.now = ch.now + dt,
                           !.result = HostErr("Dns", "lookup")]
       \/ \E k \in 0..MaxAddrs, collect \in {"panic", "truncate"} :
             ch' = IF k > SocketCap /\ collect = "panic"
                   THEN [ch EXCEPT !.pc = "panic", !.now = ch.now + dt, !.resolved = k]
                   ELSE IF k = 0
                   THEN [ch EXCEPT !.pc = "done", !.now = ch.now + dt,
                                   !.result = HostErr("Dns", "No ip address")]
                   ELSE [ch EXCEPT !.pc = "loop", !.now = ch.now + dt,
                                   !.connect_deadline = connect_deadline(ch),
                                   !.resolved = k,
                                   !.n = IF k > SocketCap THEN SocketCap ELSE k]
    /\ UNCHANGED <<rd, sl, br, cr, cn, up, hd, pl, hl, pr>>

\* the loop body after the connect has returned out, dt ticks later
Connected(c, out, dt) ==
    IF out = "Ok"
    THEN [c EXCEPT !.pc = "connected", !.now = c.now + dt,
                   !.attempted = Append(c.attempted, out),
                   !.any_stream = Some(Len(c.attempted) + 1)]
    ELSE [c EXCEPT !.now = c.now + dt,
                   !.attempted = Append(c.attempted, out),
                   !.any_err = Some(out)]

\* one pass of the loop over sock_addrs. With a connect deadline:
\* time_until_deadline(deadline)? and connect_timeout(&sock_addr, timeout),
\* which refuses a zero timeout with InvalidInput and gives TimedOut once
\* the timeout has gone by. Without one: connect(&sock_addr).
HostAttempt ==
    /\ ch.pc = "loop"
    /\ Len(ch.attempted) < ch.n
    /\ IF ch.connect_deadline.kind = "Some"
       THEN LET timeout == time_until_deadline(ch.connect_deadline.v, ch.now)
            IN  IF timeout.kind = "Err"
                THEN ch' = [ch EXCEPT !.pc = "done", !.result = HostErr("Io", "TimedOut")]
                ELSE IF timeout.v = 0
                THEN ch' = Connected(ch, "InvalidInput", 0)
                ELSE \/ \E dt \in 0..timeout.v, out \in {"Ok"} \cup ConnectErrors :
                           ch' = Connected(ch, out, dt)
                     \/ ch' = Connected(ch, "TimedOut", timeout.v + 1)
       ELSE \E dt \in 0..1, out \in {"Ok"} \cup ConnectErrors :
               /\ ch.now + dt <= MaxTime
               /\ ch' = Connected(ch, out, dt)
    /\ UNCHANGED <<rd, sl, br, cr, cn, up, hd, pl, hl, pr>>

\* after the loop: the stream, or ConnectionFailed with the last error; then
\* set_read_timeout and set_write_timeout, with time_until_deadline(deadline)?
\* when the unit has a deadline; a socket refuses a zero timeout with
\* InvalidInput
HostFinish ==
    /\ \/ ch.pc = "connected"
       \/ ch.pc = "loop" /\ Len(ch.attempted) = ch.n
    /\ ch' = IF ch.any_stream.kind = "Some"
             THEN IF ch.deadline.kind = "Some"
                  THEN LET timeout == time_until_deadline(ch.deadline.v, ch.now)
                       IN  IF timeout.kind = "Err"
                           THEN [ch EXCEPT !.pc = "done", !.result = HostErr("Io", "TimedOut")]
                           ELSE IF timeout.v = 0
                           THEN [ch EXCEPT !.pc = "done",
                                           !.result = HostErr("Io", "InvalidInput")]
                           ELSE [ch EXCEPT !.pc = "done",
                                           !.result = [kind |-> "Ok", stream |-> ch.any_stream.v]]
                  ELSE [ch EXCEPT !.pc = "done",
                                  !.result = [kind |-> "Ok", stream |-> ch.any_stream.v]]
             ELSE IF ch.any_err.kind = "Some"
             THEN [ch EXCEPT !.pc = "done",
                             !.result = HostErr("ConnectionFailed", ch.any_err.v)]
             ELSE [ch EXCEPT !.pc = "panic"]
    /\ UNCHANGED <<rd, sl, br, cr, cn, up, hd, pl, hl, pr>>

HostNext == HostResolve \/ HostAttempt \/ HostFinish

HostSpec == HostInit /\ [][HostNext]_vars

\* connect_host has returned or panicked
HostReturned == ch.pc \in {"done", "panic"}

\* C30: for a resolver list of any length, connect_host tries the
\* candidates in order and returns the stream of the first one that
\* connects, trying none after it; when every candidate of the list fails
\* it returns ConnectionFailed with the error of the last one; an empty
\* list is a Dns error.
C30_FirstSuccessOrLastError ==
    HostReturned =>
        IF ch.resolved = 0 THEN ch.result.kind = "Err" /\ ch.result.err = "Dns"
        ELSE /\ ch.pc = "done"
             /\ \A i \in 1..(Len(ch.attempted) - 1) : ch.attempted[i] # "Ok"
             /\ \/ /\ ch.result.kind = "Ok"
                   /\ ch.result.stream = Len(ch.attempted)
                   /\ ch.attempted[Len(ch.attempted)] = "Ok"
                \/ /\ ch.result.kind = "Err"
                   /\ ch.result.err = "ConnectionFailed"
                   /\ Len(ch.attempted) = ch.resolved
                   /\ ch.attempted[ch.resolved] # "Ok"
                   /\ ch.result.src = ch.attempted[ch.resolved]

\* the step is a pass of the loop that starts a connect
ConnectStarts == ch.pc = "loop" /\ Len(ch'.attempted) = Len(ch.attempted) + 1

\* C31: under a connect deadline, a pass of the loop that finds the time
\* budget used up returns a timeout error and starts no connect; no connect
\* starts with a zero timeout, and none starts after the deadline of the
\* unit has passed.
C31_NoConnectWithoutBudget ==
    [][/\ (/\ ch.pc = "loop" /\ Len(ch.attempted) < ch.n
           /\ ch.connect_deadline.kind = "Some"
           /\ ch.now >= ch.connect_deadline.v)
          => /\ ch'.pc = "done"
             /\ ch'.attempted = ch.attempted
             /\ ch'.result = HostErr("Io", "TimedOut")
       /\ ConnectStarts
          => /\ ch.connect_deadline.kind = "Some" => ch.now < ch.connect_deadline.v
             /\ ch.deadline.kind = "Some" => ch.now <= ch.deadline.v]_vars

\* C32: a timeout reaches the caller with an error kind of its own: not
\* ConnectionFailed and not Io, the kind of every other io::Error.
C32_TimeoutHasItsOwnKind ==
    (ch.pc = "done" /\ ch.result.kind = "Err" /\ ch.result.src = "TimedOut")
        => ch.result.err \notin {"ConnectionFailed", "Io"}

(***************************************************************************)
(* send_prelude (unit.rs) on its own: the Host header for every scheme,    *)
(* port and set of request headers.                                        *)
(***************************************************************************)
\* the headers of a unit: do_call builds a unit only from headers that pass
\* Header::validate, and a header name is set at most once
PreludeHeaders ==
    {hs \in {<<>>,
             <<HeaderNew(<<72, 111, 115, 116>>, <<104>>)>>,
             <<HeaderNew(<<72, 79, 83, 84>>, <<32, 104, 32>>)>>,
             <<HeaderNew(<<65, 99, 99, 101, 112, 116>>, <<120>>), HeaderNew(<<104, 79, 115, 84>>, <<104>>)>>,
             <<HeaderNew(<<65, 117, 116, 104, 111, 114, 105, 122, 97, 116, 105, 111, 110>>, <<115>>)>>,
             <<HeaderNew(<<72, 111, 115, 116>>, <<1>>)>>} :
        \A i \in 1..Len(hs) : validate(hs[i])}

\* the urls of a unit: a host with no port, with the default port of http
\* and of https, and with another port, under each scheme
PreludeUrls ==
    {UrlOf(sch, <<97>>, po, <<47>>) :
        sch \in {SchemeHttp, SchemeHttps, SchemeTest}, po \in {0, 80, 443, 81}}

PreludeInit ==
    /\ rd = Idle /\ sl = Idle /\ br = Idle /\ cr = Idle /\ cn = Idle /\ up = Idle /\ hd = Idle /\ ch = Idle /\ hl = Idle /\ pr = Idle
    /\ pl \in {[pc |-> "unit", unit |-> [method |-> MethodGet, url |-> url, headers |-> hs],
                 redir |-> redir, prelude |-> NoPrelude] :
                    url \in PreludeUrls, hs \in PreludeHeaders, redir \in BOOLEAN}

\* send_prelude(unit, stream, redir)
PreludeSend ==
    /\ pl.pc = "unit"
    /\ pl' = [pl EXCEPT !.pc = "sent", !.prelude = Prelude(pl.unit, pl.redir)]
    /\ UNCHANGED <<rd, sl, br, cr, cn, up, hd, ch, hl, pr>>

PreludeNext == PreludeSend

PreludeSpec == PreludeInit /\ [][PreludeNext]_vars

\* the header lines of the prelude whose name is Host in some letter case
HostLines == {i \in 1..Len(pl.prelude.headers) :
                 EqIgnoreAsciiCase(pl.prelude.headers[i].name, TextLowerHost)}

\* the headers of the unit whose name is Host in some letter case
CallerHosts == {j \in 1..Len(pl.unit.headers) :
                   EqIgnoreAsciiCase(HeaderName(pl.unit.headers[j]), TextLowerHost)}

\* the host alone without a port or with the default port of the scheme,
\* host:port otherwise
ExpectedHost(url) ==
    IF \/ url.port = 0
       \/ url.scheme = SchemeHttp /\ url.port = 80
       \/ url.scheme = SchemeHttps /\ url.port = 443
    THEN url.host
    ELSE url.host \o <<58>> \o Decimal(url.port)

\* C33: send_prelude writes a Host header exactly when the unit has no
\* header named Host in any letter case; its value is the host, followed by
\* ":port" unless the url has no port or the default port of its scheme;
\* the prelude holds one Host header, never two.
C33_HostHeaderOnce ==
    pl.pc = "sent" =>
        /\ Cardinality(HostLines) = 1
        /\ IF CallerHosts = {}
           THEN pl.prelude.headers[1] = [name |-> NameHost, value |-> ExpectedHost(pl.unit.url)]
           ELSE \A i \in HostLines : \E j \in CallerHosts :
                   /\ pl.prelude.headers[i].name = HeaderName(pl.unit.headers[j])
                   /\ pl.prelude.headers[i].value =
                         Trim(Slice(pl.unit.headers[j].line, pl.unit.headers[j].index + 1,
                                    Len(pl.unit.headers[j].line)))

\* C33 witness: a unit without a Host header and an http url with port 80,
\* for which the Host header is the host alone
C33_Witness ==
    /\ pl.pc = "sent"
    /\ CallerHosts = {}
    /\ pl.unit.url.scheme = SchemeHttp /\ pl.unit.url.port = 80
    /\ pl.prelude.headers[1] = [name |-> NameHost, value |-> pl.unit.url.host]

(***************************************************************************)
(* Header::from_str and Header::new (header.rs): the headers a caller      *)
(* can construct.                                                          *)
(***************************************************************************)
\* the bytes of the lines given to from_str: a letter, the colon, the
\* space, a line feed and DEL
LineBytes == {97, COLON, SP, LF, 127}

\* HeaderLine::into_header: index counts the bytes before the first colon,
\* and is the length of the line when it has none; a byte before the colon
\* that is not a tchar is a BadHeader error
into_header(line) ==
    LET c == Memchr(COLON, line)
        index == IF c = -1 THEN Len(line) ELSE c
    IN  IF \E i \in 1..index : ~is_tchar(line[i])
        THEN [kind |-> "BadHeader"]
        ELSE [kind |-> "Ok", header |-> [line |-> line, index |-> index]]

\* &bytes[self.index + 1..] of Header::validate panics when index + 1 is
\* beyond the end of the line
validate_panics(h) == h.index + 1 > Len(h.line)

\* Header::from_str: into_header()?, validate()?, Ok(header)
from_str(s) ==
    LET r == into_header(s)
    IN  IF r.kind # "Ok" THEN r
        ELSE IF validate_panics(r.header) THEN [kind |-> "panic"]
        ELSE IF validate(r.header) THEN r
        ELSE [kind |-> "BadHeader"]

HeaderLineInit ==
    /\ rd = Idle /\ sl = Idle /\ br = Idle /\ cr = Idle /\ cn = Idle /\ up = Idle /\ hd = Idle /\ ch = Idle /\ pl = Idle /\ pr = Idle
    /\ hl = [pc |-> "start", s |-> <<>>, name |-> <<>>, value |-> <<>>, result |-> NoResult]

\* s.parse::<Header>()
HeaderFromStr ==
    /\ hl.pc = "start"
    /\ \E s \in SeqsUpTo(LineBytes, MaxHeaderLine) :
          hl' = [hl EXCEPT !.pc = "parsed", !.s = s, !.result = from_str(s)]
    /\ UNCHANGED <<rd, sl, br, cr, cn, up, hd, ch, pl, pr>>

\* Header::new(name, value)
HeaderNewCall ==
    /\ hl.pc = "start"
    /\ \E name \in SeqsUpTo(LineBytes, 1), value \in SeqsUpTo(LineBytes, 1) :
          hl' = [hl EXCEPT !.pc = "made", !.name = name, !.value = value,
                           !.result = [kind |-> "Ok", header |-> HeaderNew(name, value)]]
    /\ UNCHANGED <<rd, sl, br, cr, cn, up, hd, ch, pl, pr>>

HeaderLineNext == HeaderFromStr \/ HeaderNewCall

HeaderLineSpec == HeaderLineInit /\ [][HeaderLineNext]_vars

\* a line that is not `name ":" value` with a name of one or more token
\* characters and a value of spaces, tabs and visible ASCII
Malformed(s) ==
    LET c == Memchr(COLON, s)
    IN  \/ c = -1
        \/ c = 0
        \/ \E i \in 1..c : ~is_tchar(s[i])
        \/ \E i \in (c + 2)..Len(s) : ~(s[i] \in {SP, 9} \cup (33..126))

\* C34: from_str returns BadHeader for every malformed line: a name with a
\* byte that is no token character, a value with a byte outside space, tab
\* and visible ASCII, an empty name, no colon at all; it never panics.
C34_MalformedLineIsBadHeader ==
    hl.pc = "parsed" =>
        /\ hl.result.kind # "panic"
        /\ Malformed(hl.s) => hl.result.kind = "BadHeader"

\* C38: every Header made by Header::new or parsed by from_str has
\* index > 0 and index + 1 < line.len().
C38_HeaderIndexInvariants ==
    (hl.pc \in {"parsed", "made"} /\ hl.result.kind = "Ok") =>
        /\ hl.result.header.index > 0
        /\ hl.result.header.index + 1 < Len(hl.result.header.line)

\* C36: a LimitedRead never has position beyond limit and never delivers
\* more bytes than limit, whatever the stream holds; at position = limit
\* every read returns Ok(0) and leaves the stream untouched.
C36_LimitedReadWithinLimit ==
    /\ [](br.reader = "LimitedRead" =>
              /\ br.position <= br.limit
              /\ Len(br.delivered) <= br.limit)
    /\ [][(br.pc = "reading" /\ br.reader = "LimitedRead" /\ br.position = br.limit)
             => /\ br'.last = Result("Ok", 0)
                /\ br'.under = Result("none", 0)
                /\ br'.stream = br.stream
                /\ br'.position = br.position
                /\ br'.delivered = br.delivered]_vars

\* C36 witness: the limit is reached while the stream holds more bytes, and
\* a further read has returned Ok(0) without a read of the stream
C36_Witness ==
    /\ br.reader = "LimitedRead"
    /\ br.limit > 0 /\ br.position = br.limit
    /\ Len(br.delivered) = br.limit
    /\ Len(br.stream) > 0
    /\ br.last = Result("Ok", 0) /\ br.under = Result("none", 0)

(***************************************************************************)
(* PoolReturnRead (pool.rs): a reader that owns the connection of a        *)
(* response body and gives it back when a read returns zero bytes.         *)
(* pr.body counts the body bytes the inner reader has not yet handed out;  *)
(* pr.inner counts the calls of the inner reader's read, pr.taken the      *)
(* times return_connection took the reader, pr.resets the calls of         *)
(* stream.reset(), pr.unread the body bytes left when the reader was taken.*)
(***************************************************************************)
MaxPoolBody == 3
MaxReads == 4

PoolResult(p, res) == [p |-> p, res |-> res]

\* return_connection with reader.as_mut() in place of reader.take(): the
\* reader stays in place after the connection was given back
return_connectionKeeps(p, resetOk) ==
    IF p.reader = "Some"
      THEN LET q == [p EXCEPT !.taken = @ + 1, !.unread = p.body]
           IN  IF ~p.poolable
                 THEN PoolResult(q, Result("Ok", 0))
                 ELSE IF resetOk
                   THEN PoolResult([q EXCEPT !.resets = @ + 1], Result("Ok", 0))
                   ELSE PoolResult([q EXCEPT !.resets = @ + 1], Result("Err", 0))
      ELSE PoolResult(p, Result("Ok", 0))

\* PoolReturnRead::return_connection: take the reader once, turn it into the
\* stream, reset the stream when it is poolable; resetOk is the outcome of
\* stream.reset()
return_connection(p, resetOk) ==
    IF p.reader = "Some"
      THEN LET q == [p EXCEPT !.reader = "None", !.taken = @ + 1,
                              !.unread = p.body]
           IN  IF ~p.poolable
                 THEN PoolResult(q, Result("Ok", 0))
                 ELSE IF resetOk
                   THEN PoolResult([q EXCEPT !.resets = @ + 1], Result("Ok", 0))
                   ELSE PoolResult([q EXCEPT !.resets = @ + 1], Result("Err", 0))
      ELSE PoolResult(p, Result("Ok", 0))

\* PoolReturnRead::do_read: Ok(0) without a reader, else the inner reader's
\* read into a buffer of want bytes: an error, or min(n, want, body) bytes
\* where n >= 1 is what the transport had ready
do_read(p, want, readOk, n) ==
    IF p.reader = "None"
      THEN PoolResult(p, Result("Ok", 0))
      ELSE IF ~readOk
        THEN PoolResult([p EXCEPT !.inner = @ + 1], Result("Err", 0))
        ELSE LET k == Min(n, Min(want, p.body))
             IN  PoolResult([p EXCEPT !.inner = @ + 1, !.body = @ - k],
                            Result("Ok", k))

\* <PoolReturnRead as Read>::read
PoolReturnReadRead(p, want, readOk, n, resetOk) ==
    LET d == do_read(p, want, readOk, n)
    IN  IF d.res.kind = "Err"
          THEN d
          ELSE IF d.res.n = 0
            THEN LET r == return_connection(d.p, resetOk)
                 IN  IF r.res.kind = "Err" THEN r ELSE PoolResult(r.p, d.res)
            ELSE d

\* PoolReturnRead::new over a reader with 0..MaxPoolBody body bytes to come
PoolInit ==
    /\ rd = Idle /\ sl = Idle /\ br = Idle /\ cr = Idle /\ cn = Idle /\ up = Idle /\ hd = Idle /\ ch = Idle /\ pl = Idle /\ hl = Idle
    /\ \E body \in 0..MaxPoolBody, poolable \in BOOLEAN :
          pr = [pc |-> "reading", reader |-> "Some", body |-> body,
                poolable |-> poolable, calls |-> 0, inner |-> 0, taken |-> 0,
                resets |-> 0, unread |-> 0, want |-> 0,
                last |-> Result("none", 0)]

\* one call of read with a destination of 0..MaxDst bytes
PoolRead ==
    /\ pr.pc = "reading"
    /\ pr.calls < MaxReads
    /\ \E want \in 0..MaxDst, readOk \in BOOLEAN, n \in 1..MaxDst,
          resetOk \in BOOLEAN :
          LET r == PoolReturnReadRead(pr, want, readOk, n, resetOk)
          IN  pr' = [r.p EXCEPT !.calls = @ + 1, !.want = want,
                                !.last = r.res]
    /\ UNCHANGED <<rd, sl, br, cr, cn, up, hd, ch, pl, hl>>

PoolNext == PoolRead

PoolSpec == PoolInit /\ [][PoolNext]_vars

\* C35: the connection is given back only once the body reader is exhausted:
\* return_connection never takes the reader while body bytes remain unread,
\* whatever the destination sizes of the reads (zero included), and a read
\* that fails in the inner reader does not give the connection back
C35_ReturnedOnlyWhenExhausted ==
    /\ [](pr.pc = "reading" => (pr.taken > 0 => pr.unread = 0))
    /\ [][(pr.pc = "reading" /\ pr'.calls = pr.calls + 1
           /\ pr'.inner = pr.inner + 1 /\ pr'.last.kind = "Err")
          => pr'.taken = pr.taken /\ pr'.reader = pr.reader]_vars

\* C37: return_connection takes the reader at most once and resets the
\* stream at most once; once the reader is None it stays None and every
\* later read returns Ok(0) with no inner read, no take and no reset
C37_ReturnedAtMostOnce ==
    /\ [](pr.pc = "reading" =>
            /\ pr.taken <= 1 /\ pr.resets <= 1
            /\ (pr.taken = 1 <=> pr.reader = "None"))
    /\ [][(pr.pc = "reading" /\ pr.reader = "None"
           /\ pr'.calls = pr.calls + 1)
          => /\ pr'.reader = "None"
             /\ pr'.last = Result("Ok", 0)
             /\ pr'.inner = pr.inner
             /\ pr'.taken = pr.taken
             /\ pr'.resets = pr.resets]_vars

\* C37 witness: the reader was taken and the stream reset, and a later read
\* with a non-empty destination returned Ok(0) without an inner read
C37_Witness ==
    /\ pr.pc = "reading"
    /\ pr.reader = "None" /\ pr.taken = 1 /\ pr.resets = 1
    /\ pr.calls > pr.inner
    /\ pr.want > 0
    /\ pr.last = Result("Ok", 0)

(***************************************************************************)
(* Responses connect does not follow.                                      *)
(***************************************************************************)
FollowedCodes == {301, 302, 303, 307, 308}

\* connect is about to decide on a response with a well-formed status line
\* that it would not follow: no Location header, a code that is no redirect
\* code, or redirects disabled
NotFollowedCase ==
    /\ cn.pc = "redirect"
    /\ get_status_line(cn.resp).kind = "Ok"
    /\ \/ ResponseHeader(cn.resp, NameLocation).kind = "None"
       \/ get_status_line(cn.resp).status \notin FollowedCodes
       \/ cn.redirects = 0

\* C39: a response connect would not follow (a 3xx without Location, a code
\* other than 301/302/303/307/308, or any response with maximum 0) is
\* returned as the final response, for every redirect maximum and every
\* number of redirects followed; it never gives TooManyRedirects
C39_NotFollowedIsReturned ==
    [][NotFollowedCase =>
          /\ cn'.pc = "connected"
          /\ cn'.connect_result = cn.resp
          /\ cn'.connect_result # Err("TooManyRedirects")]_vars

(***************************************************************************)
(* Repeated header names.                                                  *)
(***************************************************************************)
\* the lines of the block whose name is `name` in some letter-casing
Occurrences(name) ==
    {i \in 1..Len(hd.lines) :
        HasColon(hd.lines[i]) /\ LowerSeq(LineName(hd.lines[i])) = LowerSeq(name)}

\* C40: when a parsed block holds a header name more than once, in any mix
\* of letter cases, every occurrence is stored, Headers::header returns the
\* value bytes of the first occurrence in wire order, and Response::header
\* returns that value as text; a later occurrence never takes its place.
C40_FirstOccurrenceWins ==
    (BlockParsed /\ hd.headers.kind = "Ok"
        /\ \E name \in LookupNames : Cardinality(Occurrences(name)) >= 2) =>
        /\ Len(hd.headers.indices) = Len(hd.lines)
        /\ (hd.pc = "done" /\ Cardinality(Occurrences(hd.name)) >= 2) =>
              LET first == LineValue(hd.lines[FirstNamed(hd.name)])
              IN  /\ HeadersHeader(hd.headers, hd.name) = Some(first)
                  /\ hd.result = IF IsUtf8(first) THEN Some(Trim(first)) ELSE None

====
